---- MODULE Spec2Model ----
(***************************************************************************)
(* Device session and connection engine of the Navien NaviLink integration *)
(* (custom_components/navien_water_heater/navien_api.py): one gateway      *)
(* (NavilinkConnect) with its device sessions, the tasks that run on the   *)
(* asyncio event loop (start, _start, _poll_mqtt_server,                   *)
(* _server_connection_lost, the setters), the MQTT transport and the       *)
(* vendor server that answers requests.                                    *)
(*                                                                         *)
(* One step of the model is the code a coroutine runs between two awaits,  *)
(* or one callback of the transport or of the server.                      *)
(*                                                                         *)
(* Abstractions: the requests of the gateway specifications are issued in  *)
(* different milliseconds, so a session id is a number that no pending     *)
(* request uses (SpecSessions follows the millisecond clock instead);      *)
(* the clock is the age of last_data_received, observed one second before, *)
(* at and one second after the staleness timeout; payloads are left out;   *)
(* a transport that went down stays down (the client library's automatic   *)
(* reconnect is not part of this source).                                  *)
(*                                                                         *)
(* Spec is the whole system.  SpecGateway explores the gateway with unload,*)
(* clock and polling switches; SpecSetters explores the gateway with the   *)
(* setter calls of its devices, SpecSwitched adds the polling switches to  *)
(* them.  SpecSessions explores the session ids of a connected gateway.    *)
(* The remaining specifications apply one pure function of the source to   *)
(* arguments drawn by their initial predicate (args, result).              *)
(***************************************************************************)
EXTENDS Integers, Sequences, FiniteSets, TLC

(* ---------------- bounds of the model ---------------- *)
MaxChannels == 1        \* channels a legacy gateway can report
MaxLate == 1            \* timed-out requests the server may still answer
MaxSid == 3             \* session identifiers alive at the same time
MaxReconnects == 1      \* reconnects of a gateway that are followed
MaxLeak == 1            \* pending entries without a waiter that are counted
MaxCommandChannel == 2  \* channels a command is encoded for
MaxCommandTemp == 3     \* largest wire temperature a command is encoded for
MaxDays == 2            \* largest explicit number of vacation days
MaxQuarterDegrees == 300 \* largest temperature set, in quarters of a degree
MaxRawTemp == 150       \* largest raw temperature of a status
MaxUnits == 2           \* units in the unitStatusList of a channel status
MaxRawUsage == 50       \* largest raw gasInstantUsage of a unit
MaxDeviceType == 53     \* largest device type code of a gateway
MaxDeviceInfos == 2     \* entries of the device list the login returns
MaxDelivered == 3      \* messages the transport delivers to a gateway
MaxNotified == 2       \* notifications counted for one setter call
MaxTickDuration == 1600 \* longest poll tick, in hundredths of a second

(* ---------------- program constants ---------------- *)
polling_interval == 15
MAX_CONSECUTIVE_FAILURES == 3
STALENESS_TIMEOUT_MULTIPLIER == 4
MGPP_DEVICE_TYPE == 52
LEGACY_DEVICE_TYPE == 1

NoTime == -1                     \* Python None for a timestamp
NoResult == <<>>                 \* the function under study has not returned
NoArgs == <<>>                   \* no function is under study
NoDays == -1                     \* Python None for the vacation days
\* the ages of last_data_received at which the clock is observed: one second
\* before, at, and one second after the staleness timeout
AgePoints == {polling_interval * STALENESS_TIMEOUT_MULTIPLIER - 1,
              polling_interval * STALENESS_TIMEOUT_MULTIPLIER,
              polling_interval * STALENESS_TIMEOUT_MULTIPLIER + 1}

Channels == 1..MaxChannels
Sids == 1..MaxSid
DeviceTypes == {LEGACY_DEVICE_TYPE, MGPP_DEVICE_TYPE}

\* slots for the setter calls in progress: a call takes the first free slot
Callers == {"c1", "c2"}
Tasks == {"start", "poll", "unload"} \cup Callers

VARIABLES
  device_type,                \* NavilinkConnect.device_type
  token,                      \* TRUE iff user_info carries all three IoT credentials
  channelList,                \* channels the gateway reports in its channel info
  disabled,                   \* coordinator._disabled_devices (as channel numbers)
  connected,                  \* NavilinkConnect.connected
  shutting_down,              \* NavilinkConnect.shutting_down
  client,                     \* "none" or "made": NavilinkConnect.client
  transportOpen,              \* the transport of self.client is connected
  orphanOpen,                 \* a transport of a replaced client is still connected
  messages,                   \* dialect of self.topics / self.messages ("none" at first)
  disconnect_event,           \* asyncio.Event disconnect_event is set
  client_lock,                \* "free" or the task holding client_lock
  response_events,            \* session id -> "absent" | "clear" | "set"
  late,                       \* timed-out requests the server may still answer
  leaked,                     \* entries of response_events left by cancelled waiters
  devices,                    \* keys of NavilinkConnect.devices
  waiting_for_response,       \* per device
  consecutive_poll_failures,
  last_data_received,         \* NoTime, or the seconds since the timestamp
  task,                       \* the coroutines that publish: position of each
  sup,                        \* position of the _start supervisor
  wd,                         \* position of _server_connection_lost
  call,                       \* per caller: the setter call in progress
  setupDone,                  \* the coordinator's start() has returned
  reconnects,                 \* times _start has scheduled start() again
  last_poll,                  \* NoTime, or the seconds since the timestamp
  stray,                      \* a transport call of a cancelled task still runs
  unpublished,                \* a publish of the poll in progress has raised
  now,                        \* datetime.utcnow() in milliseconds
  args,                       \* arguments of the function under study
  result                      \* its return value, NoResult before the call

vars == <<device_type, token, channelList, disabled, connected, shutting_down,
          client, transportOpen, orphanOpen, messages, disconnect_event,
          client_lock, response_events, late, leaked, devices,
          waiting_for_response, consecutive_poll_failures, last_data_received,
          task, sup, wd, call, setupDone, reconnects, last_poll, stray,
          unpublished, now,
          args, result>>

\* the state of the gateway and of its tasks
gwVars == <<device_type, token, channelList, disabled, connected,
            shutting_down, client, transportOpen, orphanOpen, messages,
            disconnect_event, client_lock, response_events, late, leaked,
            devices, waiting_for_response, consecutive_poll_failures,
            last_data_received, task, sup, wd, call, setupDone, reconnects,
            last_poll, stray, unpublished>>

(* ---------------- helpers ---------------- *)
Tk(pc, phase, reqs, sid) ==
  [pc |-> pc, phase |-> phase, reqs |-> reqs, sid |-> sid, sent |-> FALSE,
   res |-> ""]

Done(pc, res) ==
  [pc |-> pc, phase |-> "idle", reqs |-> <<>>, sid |-> 0, sent |-> FALSE,
   res |-> res]

Pub(kind, ch) == [op |-> "publish", kind |-> kind, ch |-> ch]

Sub(topic) == [op |-> "subscribe", kind |-> topic, ch |-> 0]

SetToSeq(S) ==
  LET RECURSIVE build(_)
      build(T) == IF T = {} THEN <<>>
                  ELSE LET m == CHOOSE x \in T : \A y \in T : x <= y
                       IN <<m>> \o build(T \ {m})
  IN build(S)

cfgVars == <<device_type, token, channelList>>

\* a dialect test that takes every code but 1 for MGPP (fault injection)
_uses_mgpp_protocol_unless_legacy == device_type # LEGACY_DEVICE_TYPE

_uses_mgpp_protocol == device_type = MGPP_DEVICE_TYPE

FatalErrors == {"NoAccessKey", "UnableToConnect", "UserNotFound",
                "NoResponseData", "NoChannelInformation"}

is_device_polling_disabled(d) == d \in disabled

\* get_session_id: an identifier that no pending request uses
get_session_id(re) ==
  CHOOSE s \in Sids : re[s] = "absent" /\ \A s2 \in 1..(s - 1) : re[s2] # "absent"

SidAvailable(re) == \E s \in Sids : re[s] = "absent"

\* the wait of a request that times out although its event is set, as it
\* would when the event were made after the publish (fault injection)
wait_for_ignores_event(re, sid) == re[sid] # "absent"

\* a wait for the response event without a timeout (fault injection)
wait_for_never_expires(re, sid) == FALSE

\* asyncio.wait_for(response_event.wait(), timeout=self.polling_interval)
\* runs into its timeout: the event has not been set
wait_for_expires(re, sid) == re[sid] = "clear"

\* a pop that leaves the entry in place (fault injection)
Pop_keeps_entry(re, sid) == re

\* self.response_events.pop(session_id, None)
Pop(re, sid) == IF sid = 0 THEN re ELSE [re EXCEPT ![sid] = "absent"]

(* ---------------- request lists ---------------- *)
\* _subscribe_to_topics: the topics subscribed, in order (subscribe_all_topics
\* is False for every gateway the coordinator creates)
_subscribe_to_topics ==
  IF _uses_mgpp_protocol
  THEN <<Sub("mgpp_default"), Sub("mgpp_res_did"), Sub("mgpp_res"),
         Sub("mgpp_res_rsv_rd"), Sub("mgpp_ctrl_fail"), Sub("app_connection"),
         Sub("mgpp_connection"), Sub("mgpp_disconnect")>>
  ELSE <<Sub("channel_info_sub"), Sub("channel_info_res"), Sub("control_fail"),
         Sub("channel_status_sub"), Sub("channel_status_res"),
         Sub("connection"), Sub("disconnect")>>

\* requests of _get_mgpp_device_info / _get_device_info
HandshakeRequests ==
  IF _uses_mgpp_protocol
  THEN <<Pub("did", 1), Pub("st", 1), Pub("rsv", 1)>>
  ELSE <<Pub("info", 0)>>

\* requests of _get_mgpp_status_all
_get_mgpp_status_all(devs) ==
  IF \E d \in devs : is_device_polling_disabled(d)
  THEN <<>>
  ELSE <<Pub("st", 1), Pub("rsv", 1)>>

\* requests of _get_device_status_all
_get_device_status_all(devs) ==
  IF _uses_mgpp_protocol
  THEN _get_mgpp_status_all(devs)
  ELSE LET chs == SetToSeq({d \in devs : ~is_device_polling_disabled(d)})
       IN [i \in 1..Len(chs) |-> Pub("status", chs[i])]

\* _is_connection_stale with ">=" in place of ">" (fault injection)
_is_connection_stale_at_timeout ==
  IF last_data_received = NoTime
  THEN FALSE
  ELSE last_data_received >= polling_interval * STALENESS_TIMEOUT_MULTIPLIER

\* _is_connection_stale
_is_connection_stale ==
  IF last_data_received = NoTime
  THEN FALSE
  ELSE last_data_received > polling_interval * STALENESS_TIMEOUT_MULTIPLIER

\* start() without its first except clause (fault injection): every error
\* takes the backoff branch
start_on_exception_all_transient(e) ==
  [Tk("backoff", "idle", <<>>, 0) EXCEPT !.res = e]

\* the except clauses of start(): where start() goes when _connect_aws_mqtt
\* raises e (raise for the fatal errors, else the backoff sleep)
start_on_exception(e) ==
  IF e \in FatalErrors
  THEN Done("raised", e)
  ELSE [Tk("backoff", "idle", <<>>, 0) EXCEPT !.res = e]

(* ---------------- initial state ---------------- *)
\* a gateway after its construction, its device type code being in types
InitGatewayOf(types) ==
  /\ device_type \in types
  /\ token \in BOOLEAN
  /\ channelList \in IF device_type = MGPP_DEVICE_TYPE
                     THEN {{}}
                     ELSE {1..n : n \in 0..MaxChannels}
  /\ disabled = {}
  /\ connected = FALSE
  /\ shutting_down = FALSE
  /\ client = "none"
  /\ transportOpen = FALSE
  /\ orphanOpen = FALSE
  /\ messages = "none"
  /\ disconnect_event = FALSE
  /\ client_lock = "free"
  /\ response_events = [s \in Sids |-> "absent"]
  /\ late = {}
  /\ leaked = 0
  /\ devices = {}
  /\ waiting_for_response = [d \in Channels |-> FALSE]
  /\ consecutive_poll_failures = 0
  /\ last_data_received = NoTime
  /\ task = [t \in Tasks |-> Tk("idle", "idle", <<>>, 0)]
  /\ sup = "none"
  /\ wd = "none"
  /\ call = [c \in Callers |-> [dev |-> 0, published |-> FALSE,
                                refreshed |-> FALSE, notified |-> 0]]
  /\ setupDone = FALSE
  /\ reconnects = 0
  /\ last_poll = NoTime
  /\ stray = FALSE
  /\ unpublished = FALSE

InitGateway == InitGatewayOf(DeviceTypes)

Init ==
  /\ InitGateway
  /\ now = 1
  /\ args = NoArgs
  /\ result = NoResult

(* ---------------- running a coroutine up to its next await ------------ *)
\* Task t goes on with the requests rq at position pcv, given the task table
\* tk, the pending table re and the lock lk: it registers the pending request
\* of the first request (get_session_id, response_events[session_id] =
\* asyncio.Event()) and enters async_publish / async_subscribe, taking
\* client_lock when it is free.
Launch(t, pcv, rq, tk, re, lk) ==
  IF rq = <<>>
  THEN /\ task' = [tk EXCEPT ![t] = Tk(pcv, "idle", <<>>, 0)]
       /\ response_events' = re
       /\ client_lock' = lk
  ELSE LET r == Head(rq)
           sid == IF r.op = "publish" THEN get_session_id(re) ELSE 0
           free == lk = "free" /\ \A u \in Tasks \ {t} : tk[u].phase # "lockwait"
       IN /\ r.op = "publish" => SidAvailable(re)
          /\ response_events' = IF r.op = "publish"
                                THEN [re EXCEPT ![sid] = "clear"]
                                ELSE re
          /\ client_lock' = IF free THEN t ELSE lk
          /\ task' = [tk EXCEPT ![t] =
                        Tk(pcv, IF free THEN "pub" ELSE "lockwait", rq, sid)]

\* an _on_offline that never sets disconnect_event (fault injection)
_on_offline_silent == disconnect_event' = disconnect_event

\* _on_offline, run by the transport when a connection goes down
_on_offline == disconnect_event' = (disconnect_event \/ ~shutting_down)

\* once no transport is connected no request can be answered any more
Unsent(tk) == [t \in Tasks |-> [tk[t] EXCEPT !.sent = FALSE]]

AfterClose(tk, stillOpen) == IF stillOpen THEN tk ELSE Unsent(tk)

\* a request that was given up: the handler its answer would reach
\* (async_handle_device_info, or one of the handlers that update a device)
LateKind(r) == IF r.kind = "info" THEN "info" ELSE "data"

AddLate(r) ==
  IF Cardinality(late) < MaxLate THEN late \cup {LateKind(r)} ELSE late

\* an update_channel_status that notifies whatever the flag says (fault
\* injection)
update_notifies_always(d) == TRUE

\* update_channel_status: "if not self.waiting_for_response:
\* self.publish_update()"
update_notifies(d) == ~waiting_for_response[d]

\* publish_update schedules every registered callback once more (counted
\* for the devices of the setter calls in progress)
publish_update(cl, c) ==
  [cl EXCEPT ![c].notified = IF @ < MaxNotified THEN @ + 1 ELSE @]

\* what every async_handle_* response handler does before it sets the
\* response event: _mark_data_received and the update of the devices
\* (async_handle_device_info rebuilds self.devices from the channel list,
\* the other handlers call update_channel_status of the device)
HandlerEffects(kind) ==
  /\ last_data_received' = 0
  /\ devices' = IF kind = "info" THEN channelList ELSE devices
  /\ waiting_for_response' = IF kind = "info"
                             THEN [d \in Channels |-> FALSE]
                             ELSE waiting_for_response
  /\ call' = [c \in Callers |->
               IF /\ kind # "info"
                  /\ task[c].pc \in {"ctrl", "refresh"}
                  /\ call[c].dev \in devices
                  /\ update_notifies(call[c].dev)
               THEN publish_update(call, c)[c]
               ELSE call[c]]


(* ---------------- NavilinkConnect.start / _connect_aws_mqtt ----------- *)
\* the coordinator calls gateway.start()
StartCall ==
  /\ task["start"].pc = "idle"
  /\ task' = [task EXCEPT !["start"] = Tk("while", "idle", <<>>, 0)]
  /\ UNCHANGED <<cfgVars, disabled, connected, shutting_down, client,
                 transportOpen, orphanOpen, messages, disconnect_event,
                 client_lock, response_events, late, leaked, devices,
                 waiting_for_response, consecutive_poll_failures,
                 last_data_received, sup, wd, call, setupDone, reconnects,
                 last_poll, stray, unpublished, now, args, result>>

\* start(): the while test; when it holds, _connect_aws_mqtt up to
\* "await ... self.client.connect" (a call that still runs on the replaced
\* client is followed no longer); when it fails, start() returns None
StartLoop ==
  /\ task["start"].pc = "while"
  /\ IF ~connected /\ ~shutting_down
     THEN /\ messages' = IF _uses_mgpp_protocol THEN "mgpp" ELSE "legacy"
          /\ IF token
             THEN /\ client' = "made"
                  /\ stray' = FALSE
                  /\ orphanOpen' = (orphanOpen \/ transportOpen)
                  /\ transportOpen' = FALSE
                  /\ task' = [task EXCEPT !["start"] =
                                Tk("connecting", "idle", <<>>, 0)]
             ELSE /\ task' = [task EXCEPT !["start"] =
                                start_on_exception("NoAccessKey")]
                  /\ UNCHANGED <<client, orphanOpen, transportOpen, stray>>
          /\ UNCHANGED setupDone
     ELSE /\ task' = [task EXCEPT !["start"] =
                        Done("returned", IF task["start"].res = "" THEN "None"
                                         ELSE "NoneAfterError")]
          /\ setupDone' = (setupDone \/ devices # {})
          /\ UNCHANGED <<messages, client, orphanOpen, transportOpen, stray>>
  /\ UNCHANGED <<cfgVars, disabled, connected, shutting_down,
                 disconnect_event, client_lock, response_events, late,
                 leaked, devices, waiting_for_response,
                 consecutive_poll_failures, last_data_received, sup, wd,
                 call, reconnects, last_poll, unpublished, now, args, result>>

\* client.connect succeeds: the transport calls _on_online, then
\* _subscribe_to_topics starts
ConnectOk ==
  /\ task["start"].pc = "connecting"
  /\ transportOpen' = TRUE
  /\ connected' = TRUE
  /\ Launch("start", "subscribing", _subscribe_to_topics, task,
            response_events, client_lock)
  /\ UNCHANGED <<cfgVars, disabled, shutting_down, client, orphanOpen,
                 messages, disconnect_event, late, leaked, devices,
                 waiting_for_response, consecutive_poll_failures,
                 last_data_received, sup, wd, call, setupDone, reconnects,
                 last_poll, stray, unpublished, now, args, result>>

\* configureCredentials or client.connect raises (timeout, network error)
ConnectFail ==
  /\ task["start"].pc = "connecting"
  /\ task' = [task EXCEPT !["start"] = start_on_exception("connectTimeout")]
  /\ UNCHANGED <<cfgVars, disabled, connected, shutting_down, client,
                 transportOpen, orphanOpen, messages, disconnect_event,
                 client_lock, response_events, late, leaked, devices,
                 waiting_for_response, consecutive_poll_failures,
                 last_data_received, sup, wd, call, setupDone, reconnects,
                 last_poll, stray, unpublished, now, args, result>>

\* a connect sequence that runs the handshake every time (fault injection)
handshake_due_always == TRUE

\* "if not len(self.devices)"
handshake_due == devices = {}

\* all topics subscribed: the handshake when no device exists (the MGPP
\* handshake first creates its single device), else the initial status poll
SubscribedAll ==
  /\ task["start"].pc = "subscribing"
  /\ task["start"].phase = "idle"
  /\ task["start"].reqs = <<>>
  /\ IF handshake_due
     THEN /\ devices' = IF _uses_mgpp_protocol THEN {1} ELSE devices
          /\ Launch("start", "handshake", HandshakeRequests, task,
                    response_events, client_lock)
     ELSE /\ devices' = devices
          /\ Launch("start", "initpoll", _get_device_status_all(devices),
                    task, response_events, client_lock)
  /\ UNCHANGED <<cfgVars, disabled, connected, shutting_down, client,
                 transportOpen, orphanOpen, messages, disconnect_event, late,
                 leaked, waiting_for_response, consecutive_poll_failures,
                 last_data_received, sup, wd, call, setupDone, reconnects,
                 last_poll, stray, unpublished, now, args, result>>

\* the handshake requests are through: NoChannelInformation when there is
\* still no device, else the initial status poll
HandshakeDone ==
  /\ task["start"].pc = "handshake"
  /\ task["start"].phase = "idle"
  /\ task["start"].reqs = <<>>
  /\ IF devices = {}
     THEN /\ task' = [task EXCEPT !["start"] =
                        start_on_exception("NoChannelInformation")]
          /\ UNCHANGED <<response_events, client_lock>>
     ELSE Launch("start", "initpoll", _get_device_status_all(devices),
                 task, response_events, client_lock)
  /\ UNCHANGED <<cfgVars, disabled, connected, shutting_down, client,
                 transportOpen, orphanOpen, messages, disconnect_event, late,
                 leaked, devices, waiting_for_response,
                 consecutive_poll_failures, last_data_received, sup, wd,
                 call, setupDone, reconnects, last_poll, stray, unpublished,
                 now, args, result>>

\* the initial status poll is through: _connect_aws_mqtt returns, start()
\* creates the _start task and returns the devices
ConnectDone ==
  /\ task["start"].pc = "initpoll"
  /\ task["start"].phase = "idle"
  /\ task["start"].reqs = <<>>
  /\ last_data_received' = 0
  /\ last_poll' = 0
  /\ consecutive_poll_failures' = 0
  /\ sup' = "created"
  /\ task' = [task EXCEPT !["start"] =
                IF devices # {} THEN Done("returned", "devices")
                ELSE Done("raised", "NoNavienDevices")]
  /\ setupDone' = (setupDone \/ devices # {})
  /\ UNCHANGED <<cfgVars, disabled, connected, shutting_down, client,
                 transportOpen, orphanOpen, messages, disconnect_event,
                 client_lock, response_events, late, leaked, devices,
                 waiting_for_response, wd, call, reconnects, stray,
                 unpublished, now, args, result>>

\* asyncio.sleep(15) of the transient branch is over
StartBackoffDone ==
  /\ task["start"].pc = "backoff"
  /\ task' = [task EXCEPT !["start"].pc = "while"]
  /\ UNCHANGED <<cfgVars, disabled, connected, shutting_down, client,
                 transportOpen, orphanOpen, messages, disconnect_event,
                 client_lock, response_events, late, leaked, devices,
                 waiting_for_response, consecutive_poll_failures,
                 last_data_received, sup, wd, call, setupDone, reconnects,
                 last_poll, stray, unpublished, now, args, result>>


(* ---------------- async_subscribe / async_publish ---------------- *)
\* a task that waited for client_lock gets it and starts the transport call
Acquire(t) ==
  /\ task[t].phase = "lockwait"
  /\ client_lock = "free"
  /\ client_lock' = t
  /\ task' = [task EXCEPT ![t].phase = "pub"]
  /\ UNCHANGED <<cfgVars, disabled, connected, shutting_down, client,
                 transportOpen, orphanOpen, messages, disconnect_event,
                 response_events, late, leaked, devices,
                 waiting_for_response, consecutive_poll_failures,
                 last_data_received, sup, wd, call, setupDone, reconnects,
                 last_poll, stray, unpublished, now, args, result>>

\* client.subscribe / client.publish returns: the lock is released; a
\* subscriber goes on with the next topic, a publisher awaits the response
\* event registered for its session id
PublishOk(t) ==
  /\ task[t].phase = "pub"
  /\ LET r == Head(task[t].reqs)
     IN IF r.op = "subscribe"
        THEN /\ Launch(t, task[t].pc, Tail(task[t].reqs), task,
                       response_events, "free")
             /\ call' = call
        ELSE /\ client_lock' = "free"
             /\ task' = [task EXCEPT
                          ![t].phase = "wait",
                          ![t].sent = (/\ transportOpen
                                       /\ response_events[task[t].sid] # "set")]
             /\ call' = IF t \in Callers /\ r.kind = "ctrl"
                        THEN [call EXCEPT ![t].published = TRUE]
                        ELSE call
             /\ response_events' = response_events
  /\ UNCHANGED <<cfgVars, disabled, connected, shutting_down, client,
                 transportOpen, orphanOpen, messages, disconnect_event, late,
                 leaked, devices, waiting_for_response,
                 consecutive_poll_failures, last_data_received, sup, wd,
                 setupDone, reconnects, last_poll, stray, unpublished, now,
                 args, result>>

\* client.subscribe / client.publish raises: "except Exception" drops the
\* pending entry and calls disconnect(shutting_down=False), which acts only
\* "if self.client and self.connected"; the error is not raised again
PublishRaise(t) ==
  /\ task[t].phase = "pub"
  /\ LET re1 == Pop(response_events, task[t].sid)
     IN IF client = "made" /\ connected
        THEN /\ shutting_down' = FALSE
             /\ task' = [task EXCEPT ![t].phase = "disc", ![t].sid = 0]
             /\ client_lock' = "free"
             /\ response_events' = re1
        ELSE /\ Launch(t, task[t].pc, Tail(task[t].reqs), task, re1, "free")
             /\ UNCHANGED shutting_down
  /\ unpublished' = (unpublished \/ t = "poll")
  /\ UNCHANGED <<cfgVars, disabled, connected, client, transportOpen,
                 orphanOpen, messages, disconnect_event, late, leaked,
                 devices, waiting_for_response, consecutive_poll_failures,
                 last_data_received, sup, wd, call, setupDone, reconnects,
                 last_poll, stray, now, args, result>>

\* client.disconnect (run in the executor by disconnect()) returns: the
\* transport is closed and has called _on_offline; disconnect() returns and
\* so does the async_publish / async_subscribe that called it
DisconnectReturn(t) ==
  /\ task[t].phase = "disc"
  /\ transportOpen' = FALSE
  /\ IF transportOpen
     THEN /\ _on_offline
          /\ late' = IF orphanOpen THEN late ELSE {}
     ELSE UNCHANGED <<disconnect_event, late>>
  /\ IF t = "unload"
     THEN /\ task' = [AfterClose(task, orphanOpen) EXCEPT ![t] = Done("done", "")]
          /\ UNCHANGED <<response_events, client_lock>>
     ELSE Launch(t, task[t].pc, Tail(task[t].reqs),
                 AfterClose(task, orphanOpen), response_events, client_lock)
  /\ UNCHANGED <<cfgVars, disabled, connected, shutting_down, client,
                 orphanOpen, messages, leaked, devices, waiting_for_response,
                 consecutive_poll_failures, last_data_received, sup, wd,
                 call, setupDone, reconnects, last_poll, stray, unpublished,
                 now, args, result>>

\* the server answers the request task t waits for: handle_device_info /
\* handle_device_status / handle_mgpp_did / handle_mgpp_status /
\* handle_mgpp_rsv hand the message to the loop, where the async_handle_*
\* method marks the data as received, updates the devices and sets the
\* response event of the session id
Response(t) ==
  /\ task[t].phase = "wait"
  /\ task[t].sent
  /\ transportOpen \/ orphanOpen
  /\ HandlerEffects(Head(task[t].reqs).kind)
  /\ response_events' = IF response_events[task[t].sid] = "absent"
                        THEN response_events
                        ELSE [response_events EXCEPT ![task[t].sid] = "set"]
  /\ task' = [task EXCEPT ![t].sent = FALSE]
  /\ UNCHANGED <<cfgVars, disabled, connected, shutting_down, client,
                 transportOpen, orphanOpen, messages, disconnect_event,
                 client_lock, late, leaked, consecutive_poll_failures, sup,
                 wd, setupDone, reconnects, last_poll, stray, unpublished,
                 now, args, result>>

\* the server answers a request whose waiter has given up: the handler finds
\* no response event for the session id
LateResponse(m) ==
  /\ m \in late
  /\ transportOpen \/ orphanOpen
  /\ HandlerEffects(m)
  /\ late' = late \ {m}
  /\ UNCHANGED <<cfgVars, disabled, connected, shutting_down, client,
                 transportOpen, orphanOpen, messages, disconnect_event,
                 client_lock, response_events, leaked,
                 consecutive_poll_failures, task, sup, wd, setupDone,
                 reconnects, last_poll, stray, unpublished, now, args,
                 result>>

\* the awaited response event is set: async_publish drops the pending entry
\* and returns; the task goes on with its next request
Wake(t) ==
  /\ task[t].phase = "wait"
  /\ response_events[task[t].sid] = "set"
  /\ Launch(t, task[t].pc, Tail(task[t].reqs), task,
            Pop(response_events, task[t].sid), client_lock)
  /\ call' = IF t \in Callers /\ task[t].pc = "refresh"
                /\ Head(task[t].reqs).kind \in {"status", "st"}
             THEN [call EXCEPT ![t].refreshed = TRUE]
             ELSE call
  /\ UNCHANGED <<cfgVars, disabled, connected, shutting_down, client,
                 transportOpen, orphanOpen, messages, disconnect_event, late,
                 leaked, devices, waiting_for_response,
                 consecutive_poll_failures, last_data_received, sup, wd,
                 setupDone, reconnects, last_poll, stray, unpublished, now,
                 args, result>>

\* the request a task gave up on may still be answered
Abandon(t) == IF task[t].sent THEN AddLate(Head(task[t].reqs)) ELSE late

\* wait_for times out during the connect sequence: async_publish drops the
\* pending entry and raises TimeoutError into start()
TimeoutStart ==
  /\ task["start"].phase = "wait"
  /\ wait_for_expires(response_events, task["start"].sid)
  /\ response_events' = Pop(response_events, task["start"].sid)
  /\ late' = Abandon("start")
  /\ task' = [task EXCEPT !["start"] = start_on_exception("TimeoutError")]
  /\ UNCHANGED <<cfgVars, disabled, connected, shutting_down, client,
                 transportOpen, orphanOpen, messages, disconnect_event,
                 client_lock, leaked, devices, waiting_for_response,
                 consecutive_poll_failures, last_data_received, sup, wd,
                 call, setupDone, reconnects, last_poll, stray, unpublished,
                 now, args, result>>


(* ---------------- _start, _poll_mqtt_server, _server_connection_lost --- *)
\* the _start task begins: unless shutting down it creates the poll task and
\* the connection-lost task and waits for the first exception
SupervisorRun ==
  /\ sup = "created"
  /\ IF ~shutting_down
     THEN /\ sup' = "waiting"
          /\ task' = [task EXCEPT !["poll"] = Tk("top", "idle", <<>>, 0)]
          /\ wd' = "waiting"
     ELSE /\ sup' = "done"
          /\ UNCHANGED <<task, wd>>
  /\ UNCHANGED <<cfgVars, disabled, connected, shutting_down, client,
                 transportOpen, orphanOpen, messages, disconnect_event,
                 client_lock, response_events, late, leaked, devices,
                 waiting_for_response, consecutive_poll_failures,
                 last_data_received, call, setupDone, reconnects, last_poll,
                 stray, unpublished, now, args, result>>

\* _poll_mqtt_server: the while test; the loop sleeps before the next tick,
\* or ends with PollingError, or returns when shutting down
PollTop ==
  /\ task["poll"].pc = "top"
  /\ task' = [task EXCEPT !["poll"] =
                IF connected /\ ~shutting_down
                THEN Tk("sleep", "idle", <<>>, 0)
                ELSE IF ~shutting_down THEN Done("raised", "PollingError")
                ELSE Done("returned", "")]
  /\ UNCHANGED <<cfgVars, disabled, connected, shutting_down, client,
                 transportOpen, orphanOpen, messages, disconnect_event,
                 client_lock, response_events, late, leaked, devices,
                 waiting_for_response, consecutive_poll_failures,
                 last_data_received, sup, wd, call, setupDone, reconnects,
                 last_poll, stray, unpublished, now, args, result>>

\* every device of the gateway is polling-disabled
all_disabled ==
  IF devices # {} THEN \A d \in devices : is_device_polling_disabled(d)
  ELSE FALSE

\* an iteration of the poll loop that ends without the timestamp (fault
\* injection)
end_of_tick_without_timestamp == last_poll' = last_poll

\* the end of an iteration of the poll loop: self.last_poll = datetime.now()
end_of_tick == last_poll' = 0

\* one poll tick after the sleep: staleness check, then, when client_lock is
\* not held and not every device is disabled, the status requests
PollTick ==
  /\ task["poll"].pc = "sleep"
  /\ IF _is_connection_stale
     THEN /\ task' = [task EXCEPT !["poll"] =
                        Done("raised", "StaleConnectionError")]
          /\ UNCHANGED <<response_events, client_lock, last_poll>>
     ELSE IF client_lock # "free" \/ all_disabled
     THEN /\ task' = [task EXCEPT !["poll"] = Tk("top", "idle", <<>>, 0)]
          /\ end_of_tick
          /\ UNCHANGED <<response_events, client_lock>>
     ELSE /\ Launch("poll", "polling", _get_device_status_all(devices), task,
                    response_events, client_lock)
          /\ UNCHANGED last_poll
  /\ unpublished' = FALSE
  /\ UNCHANGED <<cfgVars, disabled, connected, shutting_down, client,
                 transportOpen, orphanOpen, messages, disconnect_event, late,
                 leaked, devices, waiting_for_response,
                 consecutive_poll_failures, last_data_received, sup, wd,
                 call, setupDone, reconnects, stray, now, args, result>>

\* _get_device_status_all_with_tracking returned True: the counter is reset
PollSuccess ==
  /\ task["poll"].pc = "polling"
  /\ task["poll"].phase = "idle"
  /\ task["poll"].reqs = <<>>
  /\ consecutive_poll_failures' = 0
  /\ end_of_tick
  /\ task' = [task EXCEPT !["poll"] = Tk("top", "idle", <<>>, 0)]
  /\ unpublished' = FALSE
  /\ UNCHANGED <<cfgVars, disabled, connected, shutting_down, client,
                 transportOpen, orphanOpen, messages, disconnect_event,
                 client_lock, response_events, late, leaked, devices,
                 waiting_for_response, last_data_received, sup, wd, call,
                 setupDone, reconnects, stray, now, args, result>>

\* after_failed_poll with ">" in place of ">=" (fault injection)
after_failed_poll_off_by_one(n) ==
  IF n > MAX_CONSECUTIVE_FAILURES
  THEN Done("raised", "StaleConnectionError")
  ELSE Tk("top", "idle", <<>>, 0)

\* the position of the poll loop after a failed poll that brought the
\* counter to n
after_failed_poll(n) ==
  IF n >= MAX_CONSECUTIVE_FAILURES
  THEN Done("raised", "StaleConnectionError")
  ELSE Tk("top", "idle", <<>>, 0)

\* wait_for times out in a poll: _get_device_status_all_with_tracking returns
\* False, the counter is incremented and the threshold checked
TimeoutPoll ==
  /\ task["poll"].phase = "wait"
  /\ wait_for_expires(response_events, task["poll"].sid)
  /\ response_events' = Pop(response_events, task["poll"].sid)
  /\ late' = Abandon("poll")
  /\ consecutive_poll_failures' = consecutive_poll_failures + 1
  /\ task' = [task EXCEPT !["poll"] =
                after_failed_poll(consecutive_poll_failures + 1)]
  /\ IF after_failed_poll(consecutive_poll_failures + 1).pc = "top"
     THEN end_of_tick
     ELSE UNCHANGED last_poll
  /\ unpublished' = FALSE
  /\ UNCHANGED <<cfgVars, disabled, connected, shutting_down, client,
                 transportOpen, orphanOpen, messages, disconnect_event,
                 client_lock, leaked, devices, waiting_for_response,
                 last_data_received, sup, wd, call, setupDone, reconnects,
                 stray, now, args, result>>

\* _server_connection_lost: disconnect_event is set; clear it and raise
WatchdogFire ==
  /\ wd = "waiting"
  /\ disconnect_event
  /\ disconnect_event' = FALSE
  /\ wd' = "raised"
  /\ UNCHANGED <<cfgVars, disabled, connected, shutting_down, client,
                 transportOpen, orphanOpen, messages, client_lock,
                 response_events, late, leaked, devices,
                 waiting_for_response, consecutive_poll_failures,
                 last_data_received, task, sup, call, setupDone, reconnects,
                 last_poll, stray, unpublished, now, args, result>>

PollFinished == task["poll"].pc \in {"raised", "returned"}

\* _start after asyncio.wait(FIRST_EXCEPTION): a task has raised.  The
\* pending task is cancelled (a poll cancelled inside async_publish leaves
\* client_lock free and its pending entry in response_events, where no
\* later request uses its session id: the entry is counted in leaked; a
\* client.disconnect it had started in the executor still closes the
\* transport, and a client.publish it had started in the executor goes on
\* running there: stray).  Unless shutting down, the flags are reset and the backoff
\* sleep starts.
SupervisorWake ==
  /\ sup = "waiting"
  /\ task["poll"].pc = "raised" \/ wd = "raised"
  /\ LET closing == task["poll"].phase = "disc" /\ transportOpen
         tk1 == IF closing THEN AfterClose(task, orphanOpen) ELSE task
     IN /\ task' = [tk1 EXCEPT !["poll"] =
                      IF PollFinished THEN @ ELSE Done("cancelled", "")]
        /\ IF closing
           THEN /\ transportOpen' = FALSE
                /\ _on_offline
                /\ late' = IF orphanOpen THEN late ELSE {}
           ELSE /\ late' = IF task["poll"].phase = "wait"
                           THEN Abandon("poll") ELSE late
                /\ UNCHANGED <<transportOpen, disconnect_event>>
  /\ response_events' = Pop(response_events, task["poll"].sid)
  /\ leaked' = IF ~PollFinished /\ task["poll"].sid # 0 /\ leaked < MaxLeak
               THEN leaked + 1 ELSE leaked
  /\ wd' = IF wd = "waiting" THEN "cancelled" ELSE wd
  /\ stray' = (stray \/ task["poll"].phase = "pub")
  /\ unpublished' = FALSE
  /\ client_lock' = IF client_lock = "poll" THEN "free" ELSE client_lock
  /\ IF ~shutting_down
     THEN /\ connected' = FALSE
          /\ consecutive_poll_failures' = 0
          /\ last_data_received' = NoTime
          /\ sup' = "backoff"
     ELSE /\ sup' = "done"
          /\ UNCHANGED <<connected, consecutive_poll_failures,
                         last_data_received>>
  /\ UNCHANGED <<cfgVars, disabled, shutting_down, client, orphanOpen,
                 messages, devices, waiting_for_response, call, setupDone,
                 reconnects, last_poll, now, args, result>>

\* the transport call that a cancelled task had started in the executor
\* returns or raises there
StrayCallEnds ==
  /\ stray
  /\ stray' = FALSE
  /\ UNCHANGED <<cfgVars, disabled, connected, shutting_down, client,
                 transportOpen, orphanOpen, messages, disconnect_event,
                 client_lock, response_events, late, leaked, devices,
                 waiting_for_response, consecutive_poll_failures,
                 last_data_received, task, sup, wd, call, setupDone,
                 reconnects, last_poll, unpublished, now, args, result>>

\* the backoff sleep of _start is over: asyncio.create_task(self.start()).
\* The reconnects of one gateway are followed up to MaxReconnects.
SupervisorBackoffDone ==
  /\ sup = "backoff"
  /\ reconnects < MaxReconnects
  /\ reconnects' = reconnects + 1
  /\ sup' = "done"
  /\ task' = [task EXCEPT !["start"] = Tk("while", "idle", <<>>, 0)]
  /\ UNCHANGED <<cfgVars, disabled, connected, shutting_down, client,
                 transportOpen, orphanOpen, messages, disconnect_event,
                 client_lock, response_events, late, leaked, devices,
                 waiting_for_response, consecutive_poll_failures,
                 last_data_received, wd, call, setupDone, last_poll, stray,
                 unpublished, now, args, result>>


(* ---------------- disconnect(), transport, clock, coordinator --------- *)
\* NavilinkAccountCoordinator.disconnect calls gateway.disconnect(): it acts
\* only "if self.client and self.connected"
ExplicitDisconnect ==
  /\ setupDone
  /\ task["unload"].pc = "idle"
  /\ IF client = "made" /\ connected
     THEN /\ shutting_down' = TRUE
          /\ task' = [task EXCEPT !["unload"] = Tk("closing", "disc", <<>>, 0)]
     ELSE /\ task' = [task EXCEPT !["unload"] = Done("done", "")]
          /\ UNCHANGED shutting_down
  /\ UNCHANGED <<cfgVars, disabled, connected, client, transportOpen,
                 orphanOpen, messages, disconnect_event, client_lock,
                 response_events, late, leaked, devices,
                 waiting_for_response, consecutive_poll_failures,
                 last_data_received, sup, wd, call, setupDone, reconnects,
                 last_poll, stray, unpublished, now, args, result>>

\* the connection of the current client drops: the transport calls
\* _on_offline
TransportLost ==
  /\ transportOpen
  /\ transportOpen' = FALSE
  /\ _on_offline
  /\ late' = IF orphanOpen THEN late ELSE {}
  /\ task' = AfterClose(task, orphanOpen)
  /\ UNCHANGED <<cfgVars, disabled, connected, shutting_down, client,
                 orphanOpen, messages, client_lock, response_events, leaked,
                 devices, waiting_for_response, consecutive_poll_failures,
                 last_data_received, sup, wd, call, setupDone, reconnects,
                 last_poll, stray, unpublished, now, args, result>>

\* the connection of a client that _connect_aws_mqtt replaced drops: its
\* onOffline is the same _on_offline
OrphanLost ==
  /\ orphanOpen
  /\ orphanOpen' = FALSE
  /\ _on_offline
  /\ late' = IF transportOpen THEN late ELSE {}
  /\ task' = AfterClose(task, transportOpen)
  /\ UNCHANGED <<cfgVars, disabled, connected, shutting_down, client,
                 transportOpen, messages, client_lock, response_events,
                 leaked, devices, waiting_for_response,
                 consecutive_poll_failures, last_data_received, sup, wd,
                 call, setupDone, reconnects, last_poll, stray, unpublished,
                 now, args, result>>

\* time passes: the age of last_data_received grows.  The age is read only
\* by the staleness check after the sleep of the poll loop, so the clock is
\* advanced while the poll loop sleeps; last_poll is then as old as the
\* sleep is long.
Tick ==
  /\ task["poll"].pc = "sleep"
  /\ last_data_received # NoTime
  /\ \E a \in AgePoints :
       /\ a > last_data_received
       /\ last_data_received' = a
  /\ last_poll' = IF last_poll = NoTime THEN NoTime ELSE polling_interval
  /\ UNCHANGED <<cfgVars, disabled, connected, shutting_down, client,
                 transportOpen, orphanOpen, messages, disconnect_event,
                 client_lock, response_events, late, leaked, devices,
                 waiting_for_response, consecutive_poll_failures, task, sup,
                 wd, call, setupDone, reconnects, stray, unpublished, now,
                 args, result>>

\* NavilinkDevice.is_available / MgppDevice.is_available
is_available(d) == connected

\* NavilinkAccountCoordinator.set_device_polling_disabled
set_device_polling_disabled(d, flag) ==
  /\ setupDone
  /\ d \in devices
  /\ flag # (d \in disabled)
  /\ disabled' = IF flag THEN disabled \cup {d} ELSE disabled \ {d}
  /\ UNCHANGED <<cfgVars, connected, shutting_down, client, transportOpen,
                 orphanOpen, messages, disconnect_event, client_lock,
                 response_events, late, leaked, devices,
                 waiting_for_response, consecutive_poll_failures,
                 last_data_received, task, sup, wd, call, setupDone,
                 reconnects, last_poll, stray, unpublished, now, args,
                 result>>

(* ---------------- the setters of NavilinkDevice and MgppDevice -------- *)
Setters ==
  IF _uses_mgpp_protocol
  THEN {"set_power_state", "set_temperature", "set_operation_mode",
        "set_anti_legionella_state", "set_freeze_protection_state",
        "set_recirc_hot_button_state"}
  ELSE {"set_power_state", "set_hot_button_state", "set_temperature"}

\* a setter without its guard (fault injection)
setter_may_run_always(d) == TRUE

\* the guard of every setter: "if not self.waiting_for_response"
setter_may_run(d) == ~waiting_for_response[d]

FirstFreeSlot ==
  IF task["c1"].pc \in {"idle", "done"} THEN "c1" ELSE "c2"

\* caller c calls setter name of device d: dropped while the device waits
\* for a response; else the flag is set and the control envelope published
SetterCall(c, d, name) ==
  /\ setupDone
  /\ d \in devices
  /\ name \in Setters
  /\ task[c].pc \in {"idle", "done"}
  /\ c = FirstFreeSlot
  /\ call' = [call EXCEPT ![c] = [dev |-> d, published |-> FALSE,
                                  refreshed |-> FALSE, notified |-> 0]]
  /\ IF setter_may_run(d)
     THEN /\ waiting_for_response' = [waiting_for_response EXCEPT ![d] = TRUE]
          /\ Launch(c, "ctrl", <<Pub("ctrl", d)>>, task, response_events,
                    client_lock)
     ELSE /\ task' = [task EXCEPT ![c] = Done("done", "dropped")]
          /\ UNCHANGED <<waiting_for_response, response_events, client_lock>>
  /\ UNCHANGED <<cfgVars, disabled, connected, shutting_down, client,
                 transportOpen, orphanOpen, messages, disconnect_event, late,
                 leaked, devices, consecutive_poll_failures,
                 last_data_received, sup, wd, setupDone, reconnects,
                 last_poll, stray, unpublished, now, args, result>>

\* the status refresh after the control request: _get_device_status for a
\* legacy device, _get_mgpp_status_all for an MGPP device
RefreshRequests(d) ==
  IF _uses_mgpp_protocol
  THEN _get_mgpp_status_all(devices)
  ELSE <<Pub("status", d)>>

\* async_publish of the control envelope has returned
CtrlDone(c) ==
  /\ task[c].pc = "ctrl"
  /\ task[c].phase = "idle"
  /\ task[c].reqs = <<>>
  /\ Launch(c, "refresh", RefreshRequests(call[c].dev), task,
            response_events, client_lock)
  /\ UNCHANGED <<cfgVars, disabled, connected, shutting_down, client,
                 transportOpen, orphanOpen, messages, disconnect_event, late,
                 leaked, devices, waiting_for_response,
                 consecutive_poll_failures, last_data_received, sup, wd,
                 call, setupDone, reconnects, last_poll, stray, unpublished,
                 now, args, result>>

\* a setter that clears the flag at the end of its try block instead of in
\* a finally clause (fault injection)
setter_without_finally(c, res) ==
  /\ waiting_for_response' =
       IF res = "returned"
       THEN [waiting_for_response EXCEPT ![call[c].dev] = FALSE]
       ELSE waiting_for_response
  /\ task' = [task EXCEPT ![c] = Done("done", res)]

\* the "finally" of a setter that leaves with result res
setter_finally(c, res) ==
  /\ waiting_for_response' =
       [waiting_for_response EXCEPT ![call[c].dev] = FALSE]
  /\ task' = [task EXCEPT ![c] = Done("done", res)]

\* the status refresh has returned: publish_update, then the finally clause
RefreshDone(c) ==
  /\ task[c].pc = "refresh"
  /\ task[c].phase = "idle"
  /\ task[c].reqs = <<>>
  /\ call' = publish_update(call, c)
  /\ setter_finally(c, "returned")
  /\ UNCHANGED <<cfgVars, disabled, connected, shutting_down, client,
                 transportOpen, orphanOpen, messages, disconnect_event,
                 client_lock, response_events, late, leaked, devices,
                 consecutive_poll_failures, last_data_received, sup, wd,
                 setupDone, reconnects, last_poll, stray, unpublished, now,
                 args, result>>

\* wait_for times out in a setter: TimeoutError leaves the setter through
\* its finally clause
TimeoutCaller(c) ==
  /\ task[c].phase = "wait"
  /\ wait_for_expires(response_events, task[c].sid)
  /\ response_events' = Pop(response_events, task[c].sid)
  /\ late' = Abandon(c)
  /\ setter_finally(c, "TimeoutError")
  /\ UNCHANGED <<cfgVars, disabled, connected, shutting_down, client,
                 transportOpen, orphanOpen, messages, disconnect_event,
                 client_lock, leaked, devices, consecutive_poll_failures,
                 last_data_received, sup, wd, call, setupDone, reconnects,
                 last_poll, stray, unpublished, now, args, result>>

(* ---------------- specification ---------------- *)
\* the gateway: connect sequence, requests and responses, supervision
Gateway ==
  \/ StartCall \/ StartLoop \/ ConnectOk \/ ConnectFail
  \/ SubscribedAll \/ HandshakeDone \/ ConnectDone \/ StartBackoffDone
  \/ \E t \in Tasks : PublishOk(t)
  \/ \E t \in Tasks : PublishRaise(t)
  \/ \E t \in Tasks : DisconnectReturn(t)
  \/ \E t \in Tasks : Response(t)
  \/ \E t \in Tasks : Wake(t)
  \/ \E m \in late : LateResponse(m)
  \/ TimeoutStart \/ TimeoutPoll
  \/ SupervisorRun \/ PollTop \/ PollTick \/ PollSuccess \/ WatchdogFire
  \/ SupervisorWake \/ StrayCallEnds \/ SupervisorBackoffDone
  \/ TransportLost \/ OrphanLost

\* what the coordinator and the clock do to a gateway
Lifecycle ==
  \/ ExplicitDisconnect
  \/ Tick
  \/ \E d \in Channels, flag \in BOOLEAN : set_device_polling_disabled(d, flag)

\* the setter calls of the entities; client_lock is contended only when a
\* setter publishes besides the poll loop or besides another setter
Commands ==
  \/ \E t \in Tasks : Acquire(t)
  \/ \E c \in Callers, d \in Channels, name \in Setters : SetterCall(c, d, name)
  \/ \E c \in Callers : CtrlDone(c)
  \/ \E c \in Callers : RefreshDone(c)
  \/ \E c \in Callers : TimeoutCaller(c)

Next == Gateway \/ Lifecycle \/ Commands

Spec == Init /\ [][Next]_vars

\* the gateway with unload, clock and polling switches, no setter called
NextGateway == Gateway \/ Lifecycle

SpecGateway == Init /\ [][NextGateway]_vars

\* the gateway with setter calls, while it is not unloaded, no device is
\* polling-disabled and the data does not go stale
NextSetters == Gateway \/ Commands

SpecSetters == Init /\ [][NextSetters]_vars

\* the gateway with setter calls and polling switches
NextSwitched ==
  \/ Gateway
  \/ Commands
  \/ \E d \in Channels, flag \in BOOLEAN : set_device_polling_disabled(d, flag)

SpecSwitched == Init /\ [][NextSwitched]_vars

\* the event loop runs a coroutine whose awaited event is set, and the
\* timer of wait_for fires when the event stays clear
RequestsEnd ==
  /\ \A t \in Tasks : WF_vars(Wake(t))
  /\ WF_vars(TimeoutStart)
  /\ WF_vars(TimeoutPoll)
  /\ \A c \in Callers : WF_vars(TimeoutCaller(c))

SpecGatewayFair == SpecGateway /\ RequestsEnd

SpecSettersFair == SpecSetters /\ RequestsEnd

\* the event loop runs every coroutine that can go on, sleeps end, and a
\* transport call in the executor returns or raises
SupervisionRuns ==
  /\ WF_vars(SupervisorRun)
  /\ WF_vars(PollTop)
  /\ WF_vars(PollTick)
  /\ WF_vars(PollSuccess)
  /\ WF_vars(WatchdogFire)
  /\ WF_vars(SupervisorWake)
  /\ \A t \in Tasks : WF_vars(PublishOk(t) \/ PublishRaise(t))
  /\ \A t \in Tasks : WF_vars(DisconnectReturn(t))

SpecGatewayLive == SpecGateway /\ RequestsEnd /\ SupervisionRuns


(* ---------------- session ids on the millisecond clock ---------------- *)
\* a gateway in its Connected state: start() has returned the devices, the
\* supervisor waits for its two tasks, the poll loop sleeps
ConnectedGateway ==
  /\ device_type \in DeviceTypes
  /\ token = TRUE
  /\ channelList = IF device_type = MGPP_DEVICE_TYPE THEN {} ELSE Channels
  /\ disabled = {}
  /\ connected = TRUE
  /\ shutting_down = FALSE
  /\ client = "made"
  /\ transportOpen = TRUE
  /\ orphanOpen = FALSE
  /\ messages = IF device_type = MGPP_DEVICE_TYPE THEN "mgpp" ELSE "legacy"
  /\ disconnect_event = FALSE
  /\ client_lock = "free"
  /\ response_events = [s \in Sids |-> "absent"]
  /\ late = {}
  /\ leaked = 0
  /\ devices = Channels
  /\ waiting_for_response = [d \in Channels |-> FALSE]
  /\ consecutive_poll_failures = 0
  /\ last_data_received = 0
  /\ task = [t \in Tasks |->
               IF t = "start" THEN Done("returned", "devices")
               ELSE IF t = "poll" THEN Tk("sleep", "idle", <<>>, 0)
               ELSE Tk("idle", "idle", <<>>, 0)]
  /\ sup = "waiting"
  /\ wd = "waiting"
  /\ call = [c \in Callers |-> [dev |-> 0, published |-> FALSE,
                                refreshed |-> FALSE, notified |-> 0]]
  /\ setupDone = TRUE
  /\ reconnects = 0
  /\ last_poll = 0
  /\ stray = FALSE
  /\ unpublished = FALSE

InitSessions ==
  /\ ConnectedGateway
  /\ now = 1
  /\ args = NoArgs
  /\ result = NoResult

\* get_session_id as the code computes it: the milliseconds since the epoch
get_session_id_at(ms) == ms

\* a millisecond passes
ClockMs ==
  /\ now < MaxSid
  /\ now' = now + 1
  /\ UNCHANGED <<gwVars, args, result>>

\* task t registers a request: session_id = self.get_session_id();
\* self.response_events[session_id] = asyncio.Event(); then async_publish
\* up to its first await (client_lock, or the publish in the executor)
Register(t, pcv, r) ==
  LET sid == get_session_id_at(now)
      free == client_lock = "free"
  IN /\ response_events' = [response_events EXCEPT ![sid] = "clear"]
     /\ client_lock' = IF free THEN t ELSE client_lock
     /\ task' = [task EXCEPT ![t] =
                   Tk(pcv, IF free THEN "pub" ELSE "lockwait", <<r>>, sid)]

\* the poll loop wakes and polls the status of a device, unless client_lock
\* is held
SessionPoll ==
  /\ task["poll"].pc = "sleep"
  /\ client_lock = "free"
  /\ \E d \in devices :
       Register("poll", "polling",
                Pub(IF _uses_mgpp_protocol THEN "st" ELSE "status", d))
  /\ UNCHANGED <<cfgVars, disabled, connected, shutting_down, client,
                 transportOpen, orphanOpen, messages, disconnect_event, late,
                 leaked, devices, waiting_for_response,
                 consecutive_poll_failures, last_data_received, sup, wd,
                 call, setupDone, reconnects, last_poll, stray, unpublished,
                 now, args, result>>

\* a setter of device d is called and registers its control request
SessionCommand(c, d) ==
  /\ task[c].pc = "idle"
  /\ d \in devices
  /\ setter_may_run(d)
  /\ waiting_for_response' = [waiting_for_response EXCEPT ![d] = TRUE]
  /\ call' = [call EXCEPT ![c].dev = d]
  /\ Register(c, "ctrl", Pub("ctrl", d))
  /\ UNCHANGED <<cfgVars, disabled, connected, shutting_down, client,
                 transportOpen, orphanOpen, messages, disconnect_event, late,
                 leaked, devices, consecutive_poll_failures,
                 last_data_received, sup, wd, setupDone, reconnects,
                 last_poll, stray, unpublished, now, args, result>>

\* client.publish returns: the lock is released and the task awaits the
\* event found under its session id
SessionPublished(t) ==
  /\ task[t].phase = "pub"
  /\ client_lock' = "free"
  /\ task' = [task EXCEPT ![t].phase = "wait"]
  /\ UNCHANGED <<cfgVars, disabled, connected, shutting_down, client,
                 transportOpen, orphanOpen, messages, disconnect_event,
                 response_events, late, leaked, devices,
                 waiting_for_response, consecutive_poll_failures,
                 last_data_received, sup, wd, call, setupDone, reconnects,
                 last_poll, stray, unpublished, now, args, result>>

\* the server answers session id s: the handler sets the event found there
SessionAnswer(s) ==
  /\ response_events[s] = "clear"
  /\ \E t \in Tasks : task[t].phase = "wait" /\ task[t].sid = s
  /\ response_events' = [response_events EXCEPT ![s] = "set"]
  /\ last_data_received' = 0
  /\ UNCHANGED <<cfgVars, disabled, connected, shutting_down, client,
                 transportOpen, orphanOpen, messages, disconnect_event,
                 client_lock, late, leaked, devices, waiting_for_response,
                 consecutive_poll_failures, task, sup, wd, call, setupDone,
                 reconnects, last_poll, stray, unpublished, now, args,
                 result>>

\* where task t goes when its request is over
SessionOver(t) ==
  /\ task' = [task EXCEPT ![t] = IF t = "poll"
                                 THEN Tk("sleep", "idle", <<>>, 0)
                                 ELSE Tk("idle", "idle", <<>>, 0)]
  /\ waiting_for_response' =
       IF t \in Callers
       THEN [waiting_for_response EXCEPT ![call[t].dev] = FALSE]
       ELSE waiting_for_response

\* the awaited event is set (or was set and then popped by another waiter
\* of the same session id): async_publish pops the entry and returns
SessionReturn(t) ==
  /\ task[t].phase = "wait"
  /\ response_events[task[t].sid] \in {"set", "absent"}
  /\ response_events' = Pop(response_events, task[t].sid)
  /\ SessionOver(t)
  /\ UNCHANGED <<cfgVars, disabled, connected, shutting_down, client,
                 transportOpen, orphanOpen, messages, disconnect_event,
                 client_lock, late, leaked, devices,
                 consecutive_poll_failures, last_data_received, sup, wd,
                 call, setupDone, reconnects, last_poll, stray, unpublished,
                 now, args, result>>

\* wait_for times out (the event is clear, or was cleared and popped by
\* another waiter of the same session id): the entry is popped
SessionTimeout(t) ==
  /\ task[t].phase = "wait"
  /\ response_events[task[t].sid] \in {"clear", "absent"}
  /\ response_events' = Pop(response_events, task[t].sid)
  /\ SessionOver(t)
  /\ UNCHANGED <<cfgVars, disabled, connected, shutting_down, client,
                 transportOpen, orphanOpen, messages, disconnect_event,
                 client_lock, late, leaked, devices,
                 consecutive_poll_failures, last_data_received, sup, wd,
                 call, setupDone, reconnects, last_poll, stray, unpublished,
                 now, args, result>>

NextSessions ==
  \/ ClockMs
  \/ SessionPoll
  \/ \E c \in Callers, d \in Channels : SessionCommand(c, d)
  \/ \E t \in Tasks : Acquire(t)
  \/ \E t \in Tasks : SessionPublished(t)
  \/ \E s \in Sids : SessionAnswer(s)
  \/ \E t \in Tasks : SessionReturn(t)
  \/ \E t \in Tasks : SessionTimeout(t)

SpecSessions == InitSessions /\ [][NextSessions]_vars

(* ---------------- commands and notifications ---------------- *)
\* the commands of the entities and the poll loop on a gateway in its
\* Connected state (no reconnect is followed)
NextNotify ==
  \/ \E c \in Callers, d \in Channels, name \in Setters : SetterCall(c, d, name)
  \/ \E c \in Callers : CtrlDone(c)
  \/ \E c \in Callers : RefreshDone(c)
  \/ \E c \in Callers : TimeoutCaller(c)
  \/ \E t \in Tasks : Acquire(t)
  \/ \E t \in Tasks : PublishOk(t)
  \/ \E t \in Tasks : PublishRaise(t)
  \/ \E t \in Tasks : DisconnectReturn(t)
  \/ \E t \in Tasks : Response(t)
  \/ \E t \in Tasks : Wake(t)
  \/ \E m \in late : LateResponse(m)
  \/ PollTop \/ PollTick \/ PollSuccess \/ TimeoutPoll

SpecNotify == InitSessions /\ [][NextNotify]_vars

(* ---------------- a response that overtakes its request -------------- *)
\* the server answers the request of task t while client.publish has not
\* returned yet: the handler, run by the loop, finds the event that was
\* registered before the publish and sets it
EarlyResponse(t) ==
  /\ task[t].phase = "pub"
  /\ Head(task[t].reqs).op = "publish"
  /\ transportOpen
  /\ response_events[task[t].sid] = "clear"
  /\ HandlerEffects(Head(task[t].reqs).kind)
  /\ response_events' = [response_events EXCEPT ![task[t].sid] = "set"]
  /\ UNCHANGED <<cfgVars, disabled, connected, shutting_down, client,
                 transportOpen, orphanOpen, messages, disconnect_event,
                 client_lock, late, leaked, consecutive_poll_failures, task,
                 sup, wd, setupDone, reconnects, last_poll, stray,
                 unpublished, now, args, result>>

\* the commands and the poll loop of a connected gateway, with responses
\* that may arrive before the publish has returned
NextRace == NextNotify \/ \E t \in Tasks : EarlyResponse(t)

SpecRace == InitSessions /\ [][NextRace]_vars


(* ---------------- command encoders: Messages and MgppMessages --------- *)
\* the fields of a control request that depend on the command (client id,
\* MAC address, device type, additional value and the topics are those of
\* the gateway in every request)
Request(command, mode, param, channelNumber) ==
  [command |-> command, mode |-> mode, param |-> param,
   channelNumber |-> channelNumber]

\* Messages.power / hot_button / temperature
power(state, channel_number) ==
  Request(33554433, "power", <<state>>, channel_number)

hot_button(state, channel_number) ==
  Request(33554437, "onDemand", <<state>>, channel_number)

temperature(temp, channel_number) ==
  Request(33554435, "DHWTemperature", <<temp>>, channel_number)

\* MgppMessages.mgpp_*: the request has no channel number
mgpp_power(state, channel_number) ==
  Request(IF state THEN 33554434 ELSE 33554433,
          IF state THEN "power-on" ELSE "power-off", <<>>, 0)

mgpp_temperature(temp, channel_number) ==
  Request(33554464, "dhw-temperature", <<temp>>, 0)

mgpp_operation_mode(mode, channel_number, days) ==
  Request(33554437, "dhw-mode",
          IF mode = 5
          THEN <<mode, IF days # NoDays THEN days ELSE 7>>
          ELSE <<mode>>,
          0)

mgpp_anti_legionella(state, channel_number) ==
  Request(IF state THEN 33554472 ELSE 33554471,
          IF state THEN "anti-leg-on" ELSE "anti-leg-off",
          IF state THEN <<7>> ELSE <<>>, 0)

\* state_value = 2 if state else 1 is computed and not used
mgpp_freeze_protection(state, channel_number) ==
  Request(33554451, "freeze-protection", <<>>, 0)

mgpp_recirc_hot_button(state, channel_number) ==
  Request(33554444, "recirc-hotbtn", <<IF state THEN 2 ELSE 1>>, 0)

\* a logical command: the encoder and the arguments it is called with
Cmd(enc, val, ch, days) == [enc |-> enc, val |-> val, ch |-> ch, days |-> days]

CommandChannels == 1..MaxCommandChannel
WireTemps == 0..MaxCommandTemp

\* the commands of a legacy gateway (state 1 = on, 2 = off) and of an MGPP
\* gateway (one device, channel 1; the vacation days go with mode 5)
LogicalCommands ==
  IF _uses_mgpp_protocol
  THEN {Cmd(e, s, 1, NoDays) :
          e \in {"mgpp_power", "mgpp_anti_legionella",
                 "mgpp_freeze_protection", "mgpp_recirc_hot_button"},
          s \in BOOLEAN}
       \cup {Cmd("mgpp_temperature", t, 1, NoDays) : t \in WireTemps}
       \cup {Cmd("mgpp_operation_mode", m, 1, NoDays) : m \in 1..5}
       \cup {Cmd("mgpp_operation_mode", 5, 1, n) : n \in 1..MaxDays}
  ELSE {Cmd(e, s, ch, NoDays) :
          e \in {"power", "hot_button"}, s \in {1, 2}, ch \in CommandChannels}
       \cup {Cmd("temperature", t, ch, NoDays) :
               t \in WireTemps, ch \in CommandChannels}

\* the request fields of a logical command
Encode(c) ==
  CASE c.enc = "power" -> power(c.val, c.ch)
    [] c.enc = "hot_button" -> hot_button(c.val, c.ch)
    [] c.enc = "temperature" -> temperature(c.val, c.ch)
    [] c.enc = "mgpp_power" -> mgpp_power(c.val, c.ch)
    [] c.enc = "mgpp_temperature" -> mgpp_temperature(c.val, c.ch)
    [] c.enc = "mgpp_operation_mode" -> mgpp_operation_mode(c.val, c.ch, c.days)
    [] c.enc = "mgpp_anti_legionella" -> mgpp_anti_legionella(c.val, c.ch)
    [] c.enc = "mgpp_freeze_protection" -> mgpp_freeze_protection(c.val, c.ch)
    [] c.enc = "mgpp_recirc_hot_button" -> mgpp_recirc_hot_button(c.val, c.ch)

\* two commands of one gateway are to be encoded
InitEncoders ==
  /\ InitGateway
  /\ now = 1
  /\ args \in LogicalCommands \X LogicalCommands
  /\ result = NoResult

EncodeBoth ==
  /\ result = NoResult
  /\ result' = <<Encode(args[1]), Encode(args[2])>>
  /\ UNCHANGED <<gwVars, now, args>>

NextEncoders == EncodeBoth

SpecEncoders == InitEncoders /\ [][NextEncoders]_vars


(* ---------------- temperatures: set_temperature and the status -------- *)
\* A temperature is counted in quarters of a degree, which a float holds
\* exactly; a raw wire value is an integer.

\* Python round() of the fraction n / d (n >= 0, d > 0): the nearest
\* integer, a tie going to the even one
py_round(n, d) ==
  LET f == n \div d
      r == n % d
  IN IF 2 * r < d THEN f
     ELSE IF 2 * r > d THEN f + 1
     ELSE IF f % 2 = 0 THEN f ELSE f + 1

\* int(celsius * 2), without round (fault injection)
_encode_half_degree_celsius_truncated(celsius) == (2 * celsius) \div 4

\* _encode_half_degree_celsius: int(round(celsius * 2))
_encode_half_degree_celsius(celsius) == py_round(2 * celsius, 4)

\* _decode_half_degree_celsius: float(raw) / 2.0, in quarters of a degree
_decode_half_degree_celsius(raw) == (4 * raw) \div 2

\* is_celsius of a device: an MGPP device always, a legacy device unless
\* its temperatureType is FAHRENHEIT (2)
is_celsius(temperatureType) == _uses_mgpp_protocol \/ temperatureType # 2

\* set_temperature: the control request the setter has published
set_temperature(temp, temperatureType) ==
  IF _uses_mgpp_protocol
  THEN mgpp_temperature(_encode_half_degree_celsius(temp), 1)
  ELSE temperature(IF is_celsius(temperatureType)
                   THEN _encode_half_degree_celsius(temp)
                   ELSE py_round(temp, 4),
                   1)

\* MgppDevice.dhw_temperature_setting
dhw_temperature_setting(channel_status) ==
  _decode_half_degree_celsius(channel_status.dhwTemperatureSetting)

\* a temperature is to be set on a device (temperatureType 0 = unknown,
\* 1 = Celsius, 2 = Fahrenheit), or the setting of a status is to be read
InitTemperature ==
  /\ InitGateway
  /\ now = 1
  /\ args \in {<<"set_temperature", t, ty>> :
                 t \in 0..MaxQuarterDegrees, ty \in {0, 1, 2}}
              \cup {<<"dhw_temperature_setting", raw, 1>> :
                      raw \in 0..MaxRawTemp}
  /\ result = NoResult

\* the request of the setter, and what its wire value decodes to
SetTemperature ==
  /\ args[1] = "set_temperature"
  /\ result = NoResult
  /\ LET request == set_temperature(args[2], args[3])
     IN result' = <<request, _decode_half_degree_celsius(request.param[1])>>
  /\ UNCHANGED <<gwVars, now, args>>

\* the setting read from a status, and what it encodes to
ReadSetting ==
  /\ args[1] = "dhw_temperature_setting"
  /\ result = NoResult
  /\ LET setting == dhw_temperature_setting([dhwTemperatureSetting |-> args[2]])
     IN result' = <<setting, _encode_half_degree_celsius(setting)>>
  /\ UNCHANGED <<gwVars, now, args>>

NextTemperature == SetTemperature \/ ReadSetting

SpecTemperature == InitTemperature /\ [][NextTemperature]_vars


(* ---------------- legacy status decode: convert_channel_status -------- *)
DeviceSorting ==
  [NO_DEVICE |-> 0, NPE |-> 1, NCB |-> 2, NHB |-> 3, CAS_NPE |-> 4,
   CAS_NHB |-> 5, NFB |-> 6, CAS_NFB |-> 7, NFC |-> 8, NPN |-> 9,
   CAS_NPN |-> 10, NPE2 |-> 11, CAS_NPE2 |-> 12, NCB_H |-> 13, NVW |-> 14,
   CAS_NVW |-> 15]

TemperatureType == [UNKNOWN |-> 0, CELSIUS |-> 1, FAHRENHEIT |-> 2]

\* a GIUFactor that is 10 for every unit type (fault injection)
GIUFactor_always_10(unitType) == 10

\* GIUFactor of a Celsius channel
GIUFactor(unitType) ==
  IF unitType \in {DeviceSorting.NFC, DeviceSorting.NCB_H, DeviceSorting.NFB,
                   DeviceSorting.NVW}
  THEN 100
  ELSE 10

\* the unit types whose values convert_channel_status converts
ConvertedUnitTypes ==
  {DeviceSorting.NPE, DeviceSorting.NPN, DeviceSorting.NPE2,
   DeviceSorting.NCB, DeviceSorting.NFC, DeviceSorting.NCB_H,
   DeviceSorting.CAS_NPE, DeviceSorting.CAS_NPN, DeviceSorting.CAS_NPE2,
   DeviceSorting.NFB, DeviceSorting.NVW, DeviceSorting.CAS_NFB,
   DeviceSorting.CAS_NVW}

\* convert_channel_status on a channel that is not set to Fahrenheit: the
\* gasInstantUsage of the units after the call, in tenths (a value the code
\* leaves as it is counts ten tenths for one)
convert_channel_status(temperatureType, channel_status) ==
  LET usage == channel_status.gasInstantUsage
  IN [i \in 1..Len(usage) |->
        IF /\ temperatureType = TemperatureType.CELSIUS
           /\ channel_status.unitType \in ConvertedUnitTypes
           /\ i <= channel_status.unitCount
        THEN (usage[i] * GIUFactor(channel_status.unitType) * 10) \div 10
        ELSE usage[i] * 10]

RawUsages == {r \in 0..MaxRawUsage : r % 10 = 0}

\* the gasInstantUsage of the units of a status, unitCount being their number
UnitLists ==
  UNION {[1..n -> RawUsages] : n \in 0..MaxUnits}

\* a channel status is to be decoded for a channel with a temperatureType
InitStatus ==
  /\ InitGateway
  /\ now = 1
  /\ args \in {<<ty, [unitType |-> u, unitCount |-> Len(l),
                      gasInstantUsage |-> l]>> :
                 ty \in {TemperatureType.UNKNOWN, TemperatureType.CELSIUS},
                 u \in 0..15, l \in UnitLists}
  /\ result = NoResult

ConvertStatus ==
  /\ ~_uses_mgpp_protocol
  /\ result = NoResult
  /\ result' = <<convert_channel_status(args[1], args[2])>>
  /\ UNCHANGED <<gwVars, now, args>>

NextStatus == ConvertStatus

SpecStatus == InitStatus /\ [][NextStatus]_vars


(* ---------------- the dialect of a gateway ---------------- *)
DeviceTypeCodes == 0..MaxDeviceType

\* a gateway of any device type code
InitDialect ==
  /\ InitGatewayOf(DeviceTypeCodes)
  /\ now = 1
  /\ args = NoArgs
  /\ result = NoResult

\* start() with connect attempts that fail before the transport is online
NextDialect == StartCall \/ StartLoop \/ ConnectFail \/ StartBackoffDone

SpecDialect == InitDialect /\ [][NextDialect]_vars


(* ---------------- NavilinkAccountCoordinator.start ---------------- *)
Macs == {"mac1", "mac2"}

\* what login() does: it returns the device list or raises
LoginResults == {"ok", "UnableToConnect", "UserNotFound", "NoResponseData"}

\* the macAddress of the entries of device_info_list ("" when it is missing)
DeviceInfoLists ==
  UNION {[1..n -> Macs \cup {""}] : n \in 0..MaxDeviceInfos}

\* what start() of a gateway does: it returns with so many devices in the
\* gateway, or raises
GatewayStarts ==
  {[res |-> "returned", devices |-> n] : n \in 0..MaxChannels}
    \cup {[res |-> "raised", devices |-> 0]}

\* the coordinator while start() runs
Coord(pc, i, gateways, created, devs, outcome) ==
  [pc |-> pc, i |-> i, gateways |-> gateways, created |-> created,
   devices |-> devs, outcome |-> outcome]

\* a test that lets a gateway be created for a MAC address that already has
\* one (fault injection)
needs_gateway_always(mac_address, gateways) == mac_address # ""

\* "if mac_address and mac_address not in self.gateways"
needs_gateway(mac_address, gateways) ==
  mac_address # "" /\ mac_address \notin gateways

\* start() is to be called with a polling interval, a result of login(), a
\* device list and a result of start() for each gateway
InitCoordinator ==
  /\ InitGateway
  /\ now = 1
  /\ args \in [polling_interval : {0, polling_interval},
               login : LoginResults,
               device_info_list : DeviceInfoLists,
               starts : [Macs -> GatewayStarts]]
  /\ result = NoResult

\* start() up to the end of login(): login only when the interval is 0,
\* NoNavienDevices when the device list is empty, else the loop
CoordinatorLogin ==
  /\ result = NoResult
  /\ result' =
       <<IF args.login # "ok"
         THEN Coord("done", 0, {}, <<>>, 0, args.login)
         ELSE IF ~(args.polling_interval > 0)
         THEN Coord("done", 0, {}, <<>>, 0, "device_info_list")
         ELSE IF args.device_info_list = <<>>
         THEN Coord("done", 0, {}, <<>>, 0, "NoNavienDevices")
         ELSE Coord("loop", 1, {}, <<>>, 0, "")>>
  /\ UNCHANGED <<gwVars, now, args>>

\* one turn of the loop over device_info_list up to "await gateway.start()",
\* or the end of the loop: NoNavienDevices when no device exists
CoordinatorLoop ==
  /\ result # NoResult
  /\ result[1].pc = "loop"
  /\ LET co == result[1]
     IN result' =
          <<IF co.i > Len(args.device_info_list)
            THEN [co EXCEPT !.pc = "done",
                            !.outcome = IF co.devices = 0
                                        THEN "NoNavienDevices"
                                        ELSE "devices"]
            ELSE LET mac == args.device_info_list[co.i]
                 IN IF needs_gateway(mac, co.gateways)
                    THEN [co EXCEPT !.pc = "starting",
                                    !.gateways = @ \cup {mac},
                                    !.created = Append(@, mac)]
                    ELSE [co EXCEPT !.i = @ + 1]>>
  /\ UNCHANGED <<gwVars, now, args>>

\* gateway.start() returns or raises
GatewayStartEnds ==
  /\ result # NoResult
  /\ result[1].pc = "starting"
  /\ LET co == result[1]
         st == args.starts[args.device_info_list[co.i]]
     IN result' =
          <<IF st.res = "raised"
            THEN [co EXCEPT !.pc = "done", !.outcome = "raised by gateway"]
            ELSE [co EXCEPT !.pc = "loop", !.i = @ + 1,
                            !.devices = @ + st.devices]>>
  /\ UNCHANGED <<gwVars, now, args>>

NextCoordinator == CoordinatorLogin \/ CoordinatorLoop \/ GatewayStartEnds

SpecCoordinator == InitCoordinator /\ [][NextCoordinator]_vars

(* ---------------- the transport's thread and the event loop ---------- *)
\* the inbound message callbacks that update a device
MessageHandlers ==
  IF _uses_mgpp_protocol
  THEN {"mgpp_did", "mgpp_status", "mgpp_rsv"}
  ELSE {"device_info", "device_status"}

\* channel_status, raw_responses and did_features of the devices
Session(channel_status, raw_responses, did_features) ==
  [channel_status |-> channel_status, raw_responses |-> raw_responses,
   did_features |-> did_features]

\* the callbacks that loop.call_soon_threadsafe has scheduled and the loop
\* has not run yet, and the number of messages delivered so far
Loop(ready, delivered) == [ready |-> ready, delivered |-> delivered]

\* a gateway before its client is made; no device exists
InitThreads ==
  /\ InitGateway
  /\ now = 1
  /\ args = Loop(<<>>, 0)
  /\ result = <<Session("none", {}, FALSE)>>

\* async_handle_device_info, async_handle_device_status,
\* async_handle_mgpp_did, async_handle_mgpp_status, async_handle_mgpp_rsv
\* for a message that carries session id sid
async_handle(fn, sid) ==
  /\ last_data_received' = 0
  /\ response_events' = IF response_events[sid] = "absent"
                        THEN response_events
                        ELSE [response_events EXCEPT ![sid] = "set"]
  /\ devices' = IF fn = "device_info" THEN channelList ELSE devices
  /\ waiting_for_response' = IF fn = "device_info"
                             THEN [d \in Channels |-> FALSE]
                             ELSE waiting_for_response
  /\ LET s == result[1]
     IN result' =
          <<IF fn = "device_info" THEN Session("none", {}, FALSE)
            ELSE IF devices = {} THEN s
            ELSE IF fn = "device_status"
            THEN [s EXCEPT !.channel_status = "legacy"]
            ELSE IF fn = "mgpp_did" THEN [s EXCEPT !.did_features = TRUE]
            ELSE IF fn = "mgpp_status"
            THEN [s EXCEPT !.raw_responses = @ \cup {"status"},
                           !.channel_status = "mgpp"]
            ELSE [s EXCEPT !.raw_responses = @ \cup {"rsv"}]>>

\* an entry point that runs the handler in place, on the thread of the
\* transport (fault injection)
handled_in_place(fn, sid) ==
  /\ async_handle(fn, sid)
  /\ args' = [args EXCEPT !.delivered = @ + 1]

\* "self.loop.call_soon_threadsafe(self.async_handle_..., client, userdata,
\* message)"
call_soon_threadsafe(fn, sid) ==
  /\ args' = [args EXCEPT !.ready = Append(@, [fn |-> fn, sid |-> sid]),
                          !.delivered = @ + 1]
  /\ UNCHANGED <<last_data_received, response_events, devices,
                 waiting_for_response, result>>

\* _connect_aws_mqtt makes the client and registers _on_offline and
\* _on_online with it (on the loop)
CallbacksRegistered ==
  /\ client = "none"
  /\ client' = "made"
  /\ UNCHANGED <<cfgVars, disabled, connected, shutting_down, transportOpen,
                 orphanOpen, messages, disconnect_event, client_lock,
                 response_events, late, leaked, devices,
                 waiting_for_response, consecutive_poll_failures,
                 last_data_received, task, sup, wd, call, setupDone,
                 reconnects, last_poll, stray, unpublished, now, args,
                 result>>

\* the transport connects and calls _on_online (on its thread)
OnOnline ==
  /\ client = "made"
  /\ ~transportOpen
  /\ transportOpen' = TRUE
  /\ connected' = TRUE
  /\ UNCHANGED <<cfgVars, disabled, shutting_down, client, orphanOpen,
                 messages, disconnect_event, client_lock, response_events,
                 late, leaked, devices, waiting_for_response,
                 consecutive_poll_failures, last_data_received, task, sup,
                 wd, call, setupDone, reconnects, last_poll, stray,
                 unpublished, now, args, result>>

\* the transport loses its connection and calls _on_offline (on its thread)
OnOffline ==
  /\ transportOpen
  /\ transportOpen' = FALSE
  /\ _on_offline
  /\ UNCHANGED <<cfgVars, disabled, connected, shutting_down, client,
                 orphanOpen, messages, client_lock, response_events, late,
                 leaked, devices, waiting_for_response,
                 consecutive_poll_failures, last_data_received, task, sup,
                 wd, call, setupDone, reconnects, last_poll, stray,
                 unpublished, now, args, result>>

\* the transport delivers a message: handle_device_info, handle_device_status,
\* handle_mgpp_did, handle_mgpp_status or handle_mgpp_rsv (on its thread)
Handle(fn, sid) ==
  /\ transportOpen
  /\ args.delivered < MaxDelivered
  /\ call_soon_threadsafe(fn, sid)
  /\ UNCHANGED <<cfgVars, disabled, connected, shutting_down, client,
                 transportOpen, orphanOpen, messages, disconnect_event,
                 client_lock, late, leaked, consecutive_poll_failures, task,
                 sup, wd, call, setupDone, reconnects, last_poll, stray,
                 unpublished, now>>

\* the loop runs the next scheduled callback
RunReady ==
  /\ args.ready # <<>>
  /\ async_handle(Head(args.ready).fn, Head(args.ready).sid)
  /\ args' = [args EXCEPT !.ready = Tail(@)]
  /\ UNCHANGED <<cfgVars, disabled, connected, shutting_down, client,
                 transportOpen, orphanOpen, messages, disconnect_event,
                 client_lock, late, leaked, consecutive_poll_failures, task,
                 sup, wd, call, setupDone, reconnects, last_poll, stray,
                 unpublished, now>>

\* a coroutine of the loop registers the response event of a request
RequestRegistered(sid) ==
  /\ transportOpen
  /\ response_events[sid] = "absent"
  /\ response_events' = [response_events EXCEPT ![sid] = "clear"]
  /\ UNCHANGED <<cfgVars, disabled, connected, shutting_down, client,
                 transportOpen, orphanOpen, messages, disconnect_event,
                 client_lock, late, leaked, devices, waiting_for_response,
                 consecutive_poll_failures, last_data_received, task, sup,
                 wd, call, setupDone, reconnects, last_poll, stray,
                 unpublished, now, args, result>>

\* _get_mgpp_device_info, on the loop, makes the device of an MGPP gateway
MgppDeviceCreated ==
  /\ transportOpen
  /\ _uses_mgpp_protocol
  /\ devices = {}
  /\ devices' = {1}
  /\ UNCHANGED <<cfgVars, disabled, connected, shutting_down, client,
                 transportOpen, orphanOpen, messages, disconnect_event,
                 client_lock, response_events, late, leaked,
                 waiting_for_response, consecutive_poll_failures,
                 last_data_received, task, sup, wd, call, setupDone,
                 reconnects, last_poll, stray, unpublished, now, args,
                 result>>

\* the steps that run on the thread of the transport
TransportThreadStep ==
  \/ OnOnline
  \/ OnOffline
  \/ \E fn \in MessageHandlers, sid \in Sids : Handle(fn, sid)

\* the steps that run on the event loop
LoopStep ==
  \/ CallbacksRegistered
  \/ RunReady
  \/ \E sid \in Sids : RequestRegistered(sid)
  \/ MgppDeviceCreated

NextThreads == TransportThreadStep \/ LoopStep

SpecThreads == InitThreads /\ [][NextThreads]_vars

(* ---------------- the sleep of the poll loop ---------------- *)
\* the hundredths of a second in a second: durations are in hundredths
Hundredths == 100

\* "interval = 0.1", in hundredths of a second
minimum_tick == 10

\* _poll_mqtt_server: the interval it sleeps after a tick that took
\* time_delta (both in hundredths of a second)
interval(time_delta) ==
  IF time_delta < polling_interval * Hundredths
  THEN polling_interval * Hundredths - time_delta
  ELSE minimum_tick

\* the poll loop is at its while test after a tick of some duration (0
\* before the first tick)
InitInterval ==
  /\ InitGateway
  /\ now = 1
  /\ args \in [time_delta : 0..MaxTickDuration]
  /\ result = NoResult

\* the loop computes the interval and sleeps
PollSleep ==
  /\ result = NoResult
  /\ result' = <<interval(args.time_delta)>>
  /\ UNCHANGED <<gwVars, now, args>>

NextInterval == PollSleep

SpecInterval == InitInterval /\ [][NextInterval]_vars

(* ---------------- request envelopes and their topics ---------------- *)
\* the client ids _connect_aws_mqtt draws, one per connection epoch
ClientIds == {"uuid-a", "uuid-b", "uuid-c"}

\* str(deviceType) of the device info, a segment of every topic
device_type_segment == IF device_type = MGPP_DEVICE_TYPE THEN "52" ELSE "1"

\* Topics / MgppTopics: a topic is the sequence of the segments its string
\* has between the slashes; req is the prefix of the device, res and mgpp
\* are the prefixes of the client
Topic(name, client_id) ==
  LET req == <<"cmd", device_type_segment, "navilink-mac">>
      mgpp == <<"cmd", device_type_segment, "home", "user", client_id>>
      res == mgpp \o <<"res">>
      evt == <<"evt", device_type_segment, "navilink-mac">>
  IN CASE name = "mgpp_default" -> req \o <<"res">>
       [] name = "mgpp_res_did" -> mgpp \o <<"res", "did">>
       [] name = "mgpp_res" -> mgpp \o <<"res">>
       [] name = "mgpp_res_rsv_rd" -> mgpp \o <<"res", "rsv", "rd">>
       [] name = "mgpp_st_did" -> req \o <<"st", "did">>
       [] name = "mgpp_st" -> req \o <<"st">>
       [] name = "mgpp_st_rsv_rd" -> req \o <<"st", "rsv", "rd">>
       [] name = "mgpp_control" -> req \o <<"ctrl">>
       [] name = "mgpp_ctrl_fail" -> req \o <<"ctrl-fail">>
       [] name = "mgpp_connection" -> evt \o <<"connection">>
       [] name = "start" -> req \o <<"status", "start">>
       [] name = "channel_info_sub" -> req \o <<"res", "channelinfo">>
       [] name = "channel_info_res" -> res \o <<"channelinfo">>
       [] name = "control_fail" -> req \o <<"res", "controlfail">>
       [] name = "channel_status_sub" -> req \o <<"res", "channelstatus">>
       [] name = "channel_status_req" -> req \o <<"status", "channelstatus">>
       [] name = "channel_status_res" -> res \o <<"channelstatus">>
       [] name = "control" -> req \o <<"control">>
       [] name = "connection" -> req \o <<"connection">>
       [] name = "app_connection" ->
            IF _uses_mgpp_protocol THEN evt \o <<"app-connection">>
            ELSE <<"evt", "1", "navilink-mac", "app-connection">>
       [] OTHER -> <<"evt", "+", "mobile", "event", "disconnect-mqtt">>

\* the requests either codec builds (its last_will is no request: it has no
\* response topic and the broker publishes it)
RequestBuilders ==
  IF _uses_mgpp_protocol
  THEN {"mgpp_did", "mgpp_status", "mgpp_rsv_rd", "mgpp_power",
        "mgpp_temperature", "mgpp_operation_mode", "mgpp_anti_legionella",
        "mgpp_freeze_protection", "mgpp_recirc_hot_button"}
  ELSE {"channel_info", "channel_status", "power", "hot_button",
        "temperature"}

\* the "requestTopic" a builder writes
requestTopic(builder) ==
  CASE builder = "mgpp_did" -> "mgpp_st_did"
    [] builder = "mgpp_status" -> "mgpp_st"
    [] builder = "mgpp_rsv_rd" -> "mgpp_st_rsv_rd"
    [] builder = "channel_info" -> "start"
    [] builder = "channel_status" -> "channel_status_req"
    [] builder \in {"power", "hot_button", "temperature"} -> "control"
    [] OTHER -> "mgpp_control"

\* a "responseTopic" on the prefix of the device, where every client of the
\* device listens with handle_other
responseTopic_of_device(builder) ==
  IF _uses_mgpp_protocol THEN "mgpp_default" ELSE "channel_status_sub"

\* the "responseTopic" a builder writes
responseTopic(builder) ==
  CASE builder = "mgpp_did" -> "mgpp_res_did"
    [] builder = "mgpp_rsv_rd" -> "mgpp_res_rsv_rd"
    [] builder = "channel_info" -> "channel_info_res"
    [] builder \in {"channel_status", "power", "hot_button", "temperature"} ->
         "channel_status_res"
    [] OTHER -> "mgpp_res"

\* MgppMessages / Messages, made with a client id and a topics object (the
\* client id the topics were made with): the routing fields of the envelope
\* a builder returns
Envelope(builder, client_id, topics) ==
  [clientID |-> client_id,
   requestTopic |-> Topic(requestTopic(builder), topics),
   responseTopic |-> Topic(responseTopic(builder), topics)]

\* the topic of self.topics each command hands to async_publish with the
\* envelope of a builder
publish_topic(builder) ==
  CASE builder = "mgpp_did" -> "mgpp_st_did"
    [] builder = "mgpp_status" -> "mgpp_st"
    [] builder = "mgpp_rsv_rd" -> "mgpp_st_rsv_rd"
    [] builder = "channel_info" -> "start"
    [] builder = "channel_status" -> "channel_status_req"
    [] builder \in {"power", "hot_button", "temperature"} -> "control"
    [] OTHER -> "mgpp_control"

\* _subscribe_to_topics with the topics object of a client id: the topics
\* subscribed and the callback of each (subscribe_all_topics is off)
subscribed(client_id) ==
  LET Sub_(name, callback) ==
        [topic |-> Topic(name, client_id), callback |-> callback]
  IN IF _uses_mgpp_protocol
     THEN {Sub_("mgpp_default", "handle_other"),
           Sub_("mgpp_res_did", "handle_mgpp_did"),
           Sub_("mgpp_res", "handle_mgpp_status"),
           Sub_("mgpp_res_rsv_rd", "handle_mgpp_rsv"),
           Sub_("mgpp_ctrl_fail", "handle_mgpp_ctrl_fail"),
           Sub_("app_connection", "handle_mgpp_connection"),
           Sub_("mgpp_connection", "handle_mgpp_connection"),
           Sub_("mgpp_disconnect", "handle_mgpp_disconnect")}
     ELSE {Sub_("channel_info_sub", "handle_other"),
           Sub_("channel_info_res", "handle_device_info"),
           Sub_("control_fail", "handle_other"),
           Sub_("channel_status_sub", "handle_other"),
           Sub_("channel_status_res", "handle_device_status"),
           Sub_("connection", "handle_other"),
           Sub_("disconnect", "handle_other")}

\* the callbacks that set response_events[sessionID of the response]
resolves_by_session_id ==
  {"handle_device_info", "handle_device_status", "handle_mgpp_did",
   "handle_mgpp_status", "handle_mgpp_rsv"}

\* a gateway in the epoch of some client id is about to send some request
InitEnvelopes ==
  /\ InitGateway
  /\ now = 1
  /\ args \in [client_id : ClientIds, builder : RequestBuilders]
  /\ result = NoResult

\* a command builds its envelope with self.messages and publishes it to a
\* topic of self.topics, both made by _connect_aws_mqtt with the client id
\* of the epoch, when _subscribe_to_topics has subscribed with self.topics
PublishRequest ==
  /\ result = NoResult
  /\ result' = <<[topic |-> Topic(publish_topic(args.builder), args.client_id),
                  payload |-> Envelope(args.builder, args.client_id,
                                       args.client_id),
                  subscribed |-> subscribed(args.client_id)]>>
  /\ UNCHANGED <<gwVars, now, args>>

\* _connect_aws_mqtt of the next epoch: a new client id, new topics and
\* messages; the gateway goes on to send some request
NextEpoch ==
  /\ result # NoResult
  /\ \E c \in ClientIds \ {args.client_id}, b \in RequestBuilders :
       args' = [client_id |-> c, builder |-> b]
  /\ result' = NoResult
  /\ UNCHANGED <<gwVars, now>>

NextEnvelopes == PublishRequest \/ NextEpoch

SpecEnvelopes == InitEnvelopes /\ [][NextEnvelopes]_vars


(* ---------------- properties ---------------- *)
shutdown_requested == task["unload"].pc # "idle"

InConnectSequence ==
  task["start"].pc \in {"connecting", "subscribing", "handshake", "initpoll"}

Active(c) == task[c].pc \in {"ctrl", "refresh"}

\* C1: start() never returns after a failed connect attempt without
\* retrying or raising: while shutdown is not requested it does not leave
\* its loop right after the backoff sleep of a transient error.
C1_StartRetriesAfterTransientError ==
  ~(/\ task["start"].pc = "returned"
    /\ task["start"].res = "NoneAfterError"
    /\ ~shutdown_requested
    /\ ~shutting_down)

\* C2: once disconnect() has been called, in whatever state of the
\* connection, shutting_down is true (so that no connect attempt follows).
C2_DisconnectSetsShuttingDown == shutdown_requested => shutting_down

\* C3: connected, and with it is_available() of the devices, is never true
\* while the connect sequence still subscribes, or has the handshake or the
\* initial status poll outstanding.
C3_ConnectedOnlyAfterInitialPoll ==
  \A d \in Channels : is_available(d) => ~InConnectSequence

\* C4: a fatal error of the connect sequence ends start() by raising it: it
\* never takes the backoff branch, and from then on start() makes no further
\* step and no supervisor is created.
C4_FatalErrorsRaisedAtOnce ==
  [][/\ task'["start"].res \in FatalErrors => task'["start"].pc = "raised"
     /\ (task["start"].pc = "raised" /\ task["start"].res \in FatalErrors)
          => (task'["start"] = task["start"] /\ sup' = sup)]_vars

C4_FatalErrorRaised ==
  /\ task["start"].pc = "raised"
  /\ task["start"].res = "NoChannelInformation"
  /\ transportOpen
  /\ sup = "none"

\* C5: when the poll loop or the connection-lost task has raised, the other
\* one is cancelled; if shutdown was not requested connected and the failure
\* counter are reset and the backoff sleep begins; if shutdown was requested
\* nothing is reset and no backoff begins.
C5_ReconnectUnlessShutdownRequested ==
  [][SupervisorWake =>
       /\ task'["poll"].pc \in {"raised", "returned", "cancelled"}
       /\ wd' \in {"raised", "cancelled"}
       /\ IF ~shutdown_requested
          THEN /\ connected' = FALSE
               /\ consecutive_poll_failures' = 0
               /\ sup' = "backoff"
          ELSE /\ connected' = connected
               /\ consecutive_poll_failures' = consecutive_poll_failures
               /\ sup' = "done"]_vars

\* C6: the failure counter stays in 0..3; a poll that times out increments
\* it; when it reaches 3 the poll loop has raised StaleConnectionError, below
\* 3 the loop goes on; a successful poll sets it to 0 and the loop goes on.
C6_FailureCounter ==
  [][/\ consecutive_poll_failures' \in 0..3
     /\ TimeoutPoll =>
          /\ consecutive_poll_failures' = consecutive_poll_failures + 1
          /\ consecutive_poll_failures' < 3 => task'["poll"].pc = "top"
     /\ consecutive_poll_failures' = 3 =>
          task'["poll"] = Done("raised", "StaleConnectionError")
     /\ PollSuccess =>
          /\ consecutive_poll_failures' = 0
          /\ task'["poll"].pc = "top"]_vars

C6_ThirdFailureRaises ==
  /\ consecutive_poll_failures = 3
  /\ task["poll"] = Done("raised", "StaleConnectionError")
  /\ last_data_received = 0

\* C7: _is_connection_stale is true at 61 s and false at 59 s, at 60 s and
\* when there is no timestamp; a poll tick that finds it true raises
\* StaleConnectionError and publishes nothing, a tick that finds it false
\* does not raise; every response refreshes last_data_received.
C7_Staleness ==
  [][/\ last_data_received' = 61 => _is_connection_stale'
     /\ last_data_received' \in {NoTime, 0, 59, 60} => ~_is_connection_stale'
     /\ (PollTick /\ _is_connection_stale) =>
          /\ task'["poll"] = Done("raised", "StaleConnectionError")
          /\ UNCHANGED <<response_events, client_lock>>
     /\ (PollTick /\ ~_is_connection_stale) => task'["poll"].pc # "raised"
     /\ ((\E t \in Tasks : Response(t)) \/ (\E m \in late : LateResponse(m)))
          => last_data_received' = 0]_vars

C7_StaleTickRaises ==
  /\ task["poll"] = Done("raised", "StaleConnectionError")
  /\ last_data_received = 61
  /\ consecutive_poll_failures < 3

\* C8: a setter called while waiting_for_response of its device is true is
\* dropped: nothing is published, no pending request is registered and
\* nothing but the result of that call changes; so at most one setter is in
\* progress on a device, and two overlapping calls publish one control
\* request.
C8_SetterSingleFlight ==
  [][/\ \A d \in Channels :
          waiting_for_response[d] =>
            \A c \in Callers, name \in Setters :
              SetterCall(c, d, name) =>
                /\ task' = [task EXCEPT ![c] = Done("done", "dropped")]
                /\ call'[c].published = FALSE
                /\ \A c2 \in Callers \ {c} : call'[c2] = call[c2]
                /\ UNCHANGED <<cfgVars, disabled, connected, shutting_down,
                               client, transportOpen, orphanOpen, messages,
                               disconnect_event, client_lock, response_events,
                               late, leaked, devices, waiting_for_response,
                               consecutive_poll_failures, last_data_received,
                               sup, wd, setupDone, reconnects>>
     /\ \A c \in Callers, c2 \in Callers :
          (Active(c)' /\ Active(c2)' /\ call'[c].dev = call'[c2].dev)
            => c = c2]_vars

C8_SecondCallDropped ==
  /\ Active("c1")
  /\ call["c1"].published
  /\ task["c2"] = Done("done", "dropped")
  /\ call["c2"].dev = call["c1"].dev

\* C9: waiting_for_response of a device is true only while a setter of that
\* device is in progress: when the setter has finished, by returning or by
\* raising, the flag is false.
C9_FlagClearedWhenSetterFinishes ==
  \A d \in Channels :
    waiting_for_response[d] => \E c \in Callers : Active(c) /\ call[c].dev = d

C9_SetterRaisedFlagCleared ==
  \E c \in Callers :
    /\ task[c] = Done("done", "TimeoutError")
    /\ ~waiting_for_response[call[c].dev]
    /\ call[c].published

\* C10: a setter that returns normally has published its control request and
\* has received the response to the status request that follows it.
C10_ReturnsOnlyAfterPublishAndRefresh ==
  \A c \in Callers :
    task[c] = Done("done", "returned") =>
      call[c].published /\ call[c].refreshed

\* C11: a command on a polling-disabled device still publishes its control
\* request and then publishes and awaits the status requests of the refresh
\* (status for a legacy device, status and reservation for an MGPP device).
C11_CommandsIgnorePollingSwitch ==
  [][\A c \in Callers :
       /\ \A d \in Channels, name \in Setters :
            (is_device_polling_disabled(d) /\ ~waiting_for_response[d]
               /\ SetterCall(c, d, name))
              => task'[c].reqs = <<Pub("ctrl", d)>>
       /\ (is_device_polling_disabled(call[c].dev) /\ CtrlDone(c))
            => task'[c].reqs = IF _uses_mgpp_protocol
                               THEN <<Pub("st", 1), Pub("rsv", 1)>>
                               ELSE <<Pub("status", call[c].dev)>>]_vars

\* the task leaves its request sequence by an exception: start() reaches its
\* except clauses, the poll is counted as failed, a setter ends in its
\* finally clause
left_by_exception(t) ==
  task'[t].pc \in CASE t = "start" -> {"backoff", "raised"}
                    [] t = "poll" -> {"top", "raised"}
                    [] OTHER -> {"done"}

\* a request of task t is registered in response_events
pending_request(t) ==
  /\ task[t].reqs # <<>>
  /\ Head(task[t].reqs).op = "publish"

\* C12: when async_publish is called with a registered pending request and
\* the wait for the response times out or the transport publish raises, the
\* pending entry is removed (its session id is absent, or already given to
\* the next request of the task) and the error propagates to the caller:
\* async_publish does not return normally.
C12_PublishErrorsPropagate ==
  [][\A t \in Tasks \ {"unload"} :
       LET timed_out == \/ t = "start" /\ TimeoutStart
                        \/ t = "poll" /\ TimeoutPoll
                        \/ t \in Callers /\ TimeoutCaller(t)
           removed == \/ task[t].sid = 0
                      \/ response_events'[task[t].sid] = "absent"
                      \/ task'[t].sid = task[t].sid
       IN /\ timed_out => removed /\ left_by_exception(t)
          /\ (pending_request(t) /\ PublishRaise(t))
               => /\ removed
                  /\ task'[t].phase # "disc" => left_by_exception(t)
          /\ (pending_request(t) /\ DisconnectReturn(t))
               => left_by_exception(t)]_vars

\* the gateway is Connected and idle, as SpecSessions starts it
ConnectedAndIdle ==
  /\ connected /\ transportOpen /\ ~shutting_down /\ setupDone
  /\ task["start"] = Done("returned", "devices")
  /\ task["poll"] = Tk("sleep", "idle", <<>>, 0)
  /\ \A c \in Callers : task[c] = Tk("idle", "idle", <<>>, 0)
  /\ sup = "waiting" /\ wd = "waiting"
  /\ devices = Channels
  /\ response_events = [s \in Sids |-> "absent"]
  /\ last_data_received = 0 /\ consecutive_poll_failures = 0
  /\ client_lock = "free" /\ ~disconnect_event /\ ~orphanOpen
  /\ late = {} /\ leaked = 0 /\ reconnects = 0 /\ disabled = {}

\* C13: no two requests that are pending at the same time share a session
\* id (so response_events holds one entry for each of them), also when they
\* are issued in the same millisecond by a command and the poll loop or by
\* two commands.
C13_SessionIdsDistinct ==
  \A t1, t2 \in Tasks :
    (t1 # t2 /\ task[t1].sid # 0 /\ task[t2].sid # 0)
      => task[t1].sid # task[t2].sid

SteadyState == sup = "waiting" /\ ~shutdown_requested

C16_SetterTimeoutLeavesConnection ==
  [][\A c \in Callers :
       TimeoutCaller(c)
         => /\ task[c].pc \in {"ctrl", "refresh"}
            /\ task'[c] = Done("done", "TimeoutError")
            /\ response_events'[task[c].sid] = "absent"
            /\ UNCHANGED <<connected, consecutive_poll_failures, client,
                           transportOpen, orphanOpen, shutting_down,
                           disconnect_event, sup, wd, reconnects>>
            /\ task'["start"] = task["start"]
            /\ task'["poll"] = task["poll"]]_vars

\* a setter has timed out after its control envelope was published, and
\* the gateway is connected with its supervisor waiting as before
C16_SetterTimedOutStillConnected ==
  \E c \in Callers :
    /\ task[c].pc = "done"
    /\ task[c].res = "TimeoutError"
    /\ call[c].published
    /\ connected /\ transportOpen /\ sup = "waiting"
    /\ task["poll"].pc \in {"top", "sleep", "polling"}

\* C17: the request fields of two different logical commands of a gateway
\* are never equal, so the command can be recovered from its request.
C17_EncodersInjective ==
  (result # NoResult /\ args[1] # args[2]) => result[1] # result[2]

\* w is the integer nearest to n / d, the even one when two are as near
nearest_integer(w, n, d) ==
  LET dist == IF d * w >= n THEN d * w - n ELSE n - d * w
  IN /\ 2 * dist <= d
     /\ 2 * dist = d => w % 2 = 0

C19_GasUsageScaling ==
  (result # NoResult /\ args[1] = 1)
    => LET raw == args[2].gasInstantUsage
           big == args[2].unitType \in {8, 13, 6, 14}
       IN /\ Len(result[1]) = Len(raw)
          /\ \A i \in 1..Len(raw) :
               /\ big => result[1][i] = raw[i] * 100
               /\ ~big => result[1][i] = raw[i] * 10
               /\ (raw[i] = 50 /\ big) => result[1][i] = 5000
               /\ (raw[i] = 50 /\ ~big) => result[1][i] = 500

\* a Celsius status of two NFC units with raw usage 50 has been decoded to
\* 500.0 for each
C19_Raw50OfNfcIs500 ==
  /\ result # NoResult
  /\ args[1] = 1
  /\ args[2].unitType = 8
  /\ args[2].gasInstantUsage = <<50, 50>>
  /\ result[1] = <<5000, 5000>>

\* C20: the device type code of a gateway never changes; the dialect test
\* holds exactly for code 52; and every connect attempt selects the topics
\* and the messages of MGPP for code 52 and those of the legacy dialect for
\* every other code.
C20_DialectFollowsDeviceType ==
  [][/\ device_type' = device_type
     /\ _uses_mgpp_protocol <=> device_type = 52
     /\ (StartLoop /\ ~connected /\ ~shutting_down)
          => messages' = IF device_type = 52 THEN "mgpp" ELSE "legacy"
     /\ messages' \in {messages, IF device_type = 52 THEN "mgpp" ELSE "legacy"}
    ]_vars

\* a connect attempt of a gateway whose code is neither 1 nor 52 has
\* selected the legacy dialect and failed, and start() is back at its loop
\* test for the next attempt
C20_OtherCodeConnectsAsLegacy ==
  /\ device_type \notin {1, 52}
  /\ task["start"].pc = "while"
  /\ task["start"].res = "connectTimeout"
  /\ messages = "legacy"

\* the gateways created for MAC address m
created_for(m) ==
  Cardinality({k \in 1..Len(result[1].created) : result[1].created[k] = m})

\* C21: with polling interval 0 the coordinator's start() does the login
\* only and creates no gateway; with polling enabled it creates at most one
\* gateway for a MAC address, and it ends with NoNavienDevices when the
\* login returns no device or when every gateway has started and no device
\* exists.
C21_CoordinatorStart ==
  result # NoResult =>
    LET co == result[1]
    IN /\ args.polling_interval = 0
            => /\ co.pc = "done" /\ co.created = <<>>
               /\ co.outcome = IF args.login = "ok" THEN "device_info_list"
                               ELSE args.login
       /\ \A m \in Macs \cup {""} : created_for(m) <= 1
       /\ created_for("") = 0
       /\ (args.polling_interval > 0 /\ args.login = "ok"
             /\ args.device_info_list = <<>>)
            => co.pc = "done" /\ co.outcome = "NoNavienDevices"
       /\ (co.pc = "done" /\ args.polling_interval > 0 /\ args.login = "ok"
             /\ co.outcome # "raised by gateway" /\ co.devices = 0)
            => co.outcome = "NoNavienDevices"
       /\ (co.pc = "done" /\ co.outcome = "devices") => co.devices > 0

\* start() has gone through a device list that names one MAC address twice
\* and has created one gateway
C21_DuplicateMacOneGateway ==
  /\ result # NoResult
  /\ result[1].pc = "done"
  /\ args.device_info_list = <<"mac1", "mac1">>
  /\ result[1].created = <<"mac1">>
  /\ result[1].outcome = "devices"

\* task t awaits the response of a request it has registered
awaits_response(t) == task[t].phase = "wait"

\* C22: every wait for the response of a registered request ends, by the
\* response or by the timeout of wait_for: no task awaits a response for
\* ever.
C22_EveryWaitEnds ==
  \A t \in Tasks : awaits_response(t) ~> ~awaits_response(t)

\* the waits of the connect sequence have ended by their responses and the
\* wait of a setter has ended by the timeout
C22_WaitsEndedBothWays ==
  /\ task["start"] = Done("returned", "devices")
  /\ \E c \in Callers : task[c] = Done("done", "TimeoutError")
  /\ \A t \in Tasks : ~awaits_response(t)

\* C23: disconnect() of a connected gateway sets shutting_down before the
\* transport is disconnected, so the offline callback of that disconnect
\* does not set disconnect_event, and a supervisor that wakes while the
\* disconnect runs schedules no reconnect.
C23_ShutdownBeforeTransportDisconnect ==
  [][/\ (ExplicitDisconnect /\ client = "made" /\ connected)
          => /\ shutting_down'
             /\ task'["unload"].phase = "disc"
             /\ UNCHANGED <<transportOpen, disconnect_event>>
     /\ DisconnectReturn("unload")
          => /\ ~transportOpen'
             /\ disconnect_event' = disconnect_event
     /\ (task["unload"].phase = "disc" /\ SupervisorWake)
          => sup' = "done"]_vars

\* C24: shutting_down, once set by an explicit disconnect(), is never set
\* back to false, whatever publish or subscribe fails at the same time.
C24_ShuttingDownStaysSet ==
  [][shutting_down => shutting_down']_vars

\* the supervisor of the current epoch is scheduled or waits for its poll
\* loop and its connection-lost task
SupervisorStarted == sup \in {"created", "waiting"}

\* C25: in no state has start() returned without raising, with connected
\* true, shutting_down false and no shutdown requested, while no supervisor
\* with its poll loop runs or is scheduled.
C25_ReturnedStartHasSupervisor ==
  (/\ task["start"].pc = "returned"
   /\ connected
   /\ ~shutting_down
   /\ ~shutdown_requested)
    => SupervisorStarted

\* the transport subscribe and publish calls of the gateway that are running
transport_calls ==
  Cardinality({t \in Tasks : task[t].phase = "pub"}) + (IF stray THEN 1 ELSE 0)

\* C26: at most one transport subscribe or publish call of a gateway runs at
\* a time, the task that runs it holds client_lock, and no task holds
\* client_lock while it awaits the response of its request.
C26_TransportCallsSerialized ==
  /\ transport_calls <= 1
  /\ \A t \in Tasks : task[t].phase = "pub" => client_lock = t
  /\ \A t \in Tasks : task[t].phase = "wait" => client_lock # t

\* the state of the gateway that the coroutines of the event loop work on
loop_owned_state ==
  <<connected, shutting_down, disconnect_event, response_events,
    last_data_received, devices, waiting_for_response, result>>

\* C27: no callback that runs on the thread of the transport changes the
\* state the event loop owns; the message handlers and the online and offline
\* callbacks only hand their work to the loop.
C27_TransportCallbacksOnlyHandOff ==
  [][TransportThreadStep => UNCHANGED loop_owned_state]_vars

\* devices, channel_status, raw_responses and did_features
session_state == <<devices, result>>

C29_SetterSequence ==
  [][\A c \in Callers :
       /\ (~Active(c) /\ Active(c)')
            => /\ response_events[task'[c].sid] = "absent"
               /\ response_events'[task'[c].sid] = "clear"
       /\ CtrlDone(c) => call[c].published
       /\ RefreshDone(c)
            => /\ call[c].refreshed
               /\ call'[c].notified = 1
               /\ ~waiting_for_response'[call[c].dev]
       /\ (Active(c) /\ Active(c)') => call'[c].notified = 0]_vars

\* C30: the poll loop sleeps polling_interval minus the duration of the
\* previous tick, and for every duration the sleep is neither negative nor
\* shorter than the minimum tick of 0.1 s: it sleeps the minimum tick when
\* the difference is smaller.
C30_SleepClampedToMinimumTick ==
  result # NoResult
    => LET rest == polling_interval * Hundredths - args.time_delta
       IN /\ result[1] >= 0
          /\ result[1] >= minimum_tick
          /\ result[1] = IF rest >= minimum_tick THEN rest ELSE minimum_tick

\* C31: at most one transport connection of a gateway is open at any time:
\* the transport of the previous client is closed before the transport of a
\* new client opens.
C31_OneOpenTransport == ~(transportOpen /\ orphanOpen)

\* C32: when the watchdog raises DisconnectEvent, the transport of the
\* current client has gone offline: a signal left from the connect sequence
\* or the backoff, or given by the transport of an earlier client, never
\* ends an epoch whose own transport is online.
C32_DisconnectEventFromOwnTransport ==
  [][WatchdogFire => ~transportOpen]_vars

\* C33: the poll loop counts a poll as successful, and resets the
\* consecutive-failure counter, only when every status request of the poll
\* was published and answered: never after a poll in which a transport
\* publish raised.
C33_RaisedPublishIsNoSuccess ==
  [][PollSuccess => ~unpublished]_vars

\* C34: while every device of the gateway is polling-disabled and the
\* transport of the gateway is online, the poll loop raises no
\* StaleConnectionError, so the gateway is not torn down and reconnected.
C34_DisabledGatewayStaysUp ==
  [][(PollTick /\ all_disabled /\ transportOpen)
       => task'["poll"].res # "StaleConnectionError"]_vars

\* C35: after disconnect() of a connected gateway whose supervisor waits for
\* its two tasks, the supervisor eventually gets past its wait: the poll loop
\* and the watchdog finish or are cancelled and _start ends.
C35_SupervisorEndsAfterDisconnect ==
  (task["unload"].pc = "closing" /\ sup = "waiting") ~> sup # "waiting"

\* C36: is_available() of a device is never true while the transport of the
\* gateway is not open, in particular not after an explicit disconnect() of
\* the gateway has completed.
C36_AvailableOnlyWithTransport ==
  \A d \in devices :
    is_available(d)
      => /\ transportOpen
         /\ ~(shutdown_requested /\ task["unload"].pc = "done")

\* a request of task t is under way in async_publish
in_async_publish(t) ==
  /\ task[t].phase \in {"lockwait", "pub", "wait"}
  /\ Head(task[t].reqs).op = "publish"

\* C37: the pending entry of a request exists from before its publish; once
\* its response has set the event, also before async_publish awaits it, the
\* request ends by returning and not by a timeout; and a response that finds
\* no pending entry changes no request and no entry.
C37_ResponseNeverLostToRace ==
  [][/\ \A t \in Tasks :
          in_async_publish(t)' => response_events'[task'[t].sid] # "absent"
     /\ \A t \in Tasks :
          (in_async_publish(t) /\ response_events[task[t].sid] = "set")
            => /\ ~(t = "poll" /\ TimeoutPoll)
               /\ ~(t \in Callers /\ TimeoutCaller(t))
               /\ (in_async_publish(t)' /\ task'[t].reqs = task[t].reqs)
                    => response_events'[task[t].sid] = "set"
     /\ \A m \in late :
          LateResponse(m) => UNCHANGED <<task, response_events>>]_vars

\* the response of a request has set its event while client.publish has not
\* returned yet
C37_AnsweredBeforePublishReturned ==
  \E t \in Tasks :
    /\ task[t].phase = "pub"
    /\ response_events[task[t].sid] = "set"

\* C38: every entry of response_events belongs to a request whose
\* async_publish call is in progress: no entry is left behind by a call that
\* has returned, raised or been cancelled.
C38_EntriesBelongToRequests ==
  /\ leaked = 0
  /\ \A s \in Sids :
       response_events[s] # "absent"
         => \E t \in Tasks : in_async_publish(t) /\ task[t].sid = s

C40_EnvelopeRoutesToResolvingHandler ==
  result # NoResult =>
    LET r == result[1]
    IN /\ r.topic = r.payload.requestTopic
       /\ r.payload.clientID = args.client_id
       /\ \E i \in DOMAIN r.payload.responseTopic :
            r.payload.responseTopic[i] = r.payload.clientID
       /\ \E s \in r.subscribed : s.topic = r.payload.responseTopic
       /\ \A s \in r.subscribed :
            s.topic = r.payload.responseTopic =>
              s.callback \in resolves_by_session_id

\* a control request of an MGPP gateway has been published
C40_ControlRequestPublished ==
  /\ result # NoResult
  /\ args.builder = "mgpp_operation_mode"
  /\ args.client_id = "uuid-b"
  /\ result[1].topic = <<"cmd", "52", "navilink-mac", "ctrl">>

====
